---- MODULE Spec2Model ----
(***************************************************************************)
(* Model of trade-review-ai's analytic core: MarketAnalyzer               *)
(* (market_analysis/__init__.py), TradeEvaluator                           *)
(* (trade_evaluation/__init__.py), the aggregate metrics of                *)
(* TradeReviewSystem (analyzer.py) and calculate_additional_metrics        *)
(* (utils/__init__.py), and of its trade store and web front end:         *)
(* ManualTradeManager (live_data.py) and the live-analysis and             *)
(* manual-trade routes of webapp/app.py with their analysis cache.         *)
(*                                                                         *)
(* A Trade object is an entry of heap and a reference to it is its index,  *)
(* so that two lists can hold the same object.  Symbols and cache keys     *)
(* are sequences of characters.                                            *)
(*                                                                         *)
(* Prices are integers (ticks).  Every float the code derives from them    *)
(* (slope, mean, R^2, ATR, cluster means) is an exact rational <<num,den>> *)
(* in lowest terms with den > 0, so thresholds such as 0.001 and 1% are    *)
(* compared exactly.  An Optional value is <<>> (None) or <<v>>.           *)
(***************************************************************************)
EXTENDS Integers, Sequences, FiniteSets, TLC

VARIABLES
    candles,            \* ohlcv_data: the candle window handed to MarketAnalyzer
    levels,             \* levels: the list handed to _cluster_levels
    num_levels,         \* num_levels / num_clusters
    op,                 \* "ready", or the name of the function that was called
    trend,              \* calculate_trend: direction
    strength,           \* calculate_trend: strength
    volatility,         \* calculate_volatility: result
    found_lows,         \* find_support_resistance: its local swing_lows
    found_highs,        \* find_support_resistance: its local swing_highs
    support_levels,     \* find_support_resistance: first list
    resistance_levels,  \* find_support_resistance: second list
    clustered,          \* _cluster_levels: result
    trade,              \* the Trade handed to TradeEvaluator
    context,            \* the MarketContext handed to TradeEvaluator
    entry_quality,      \* evaluate_entry_quality: result
    exit_quality,       \* evaluate_exit_quality: result, an Optional
    risk_reward,        \* calculate_risk_reward: result, an Optional
    aligned,            \* check_trend_alignment: result
    discipline,         \* evaluate_execution_discipline: result
    evaluation,         \* evaluate_trade: the TradeEvaluation, an Optional
    trades,             \* the trade list handed to evaluate_trades and the metrics
    evaluations,        \* evaluate_trades: result
    metrics,            \* _calculate_performance_metrics: the dict, an Optional
    additional,         \* calculate_additional_metrics: the dict, an Optional
    returned_context,   \* analyze_market_context: the MarketContext, an Optional
    review,             \* analyze_period: the TradeReview, an Optional
    heap,               \* the Trade objects created so far; a reference is an index
    _trades,            \* ManualTradeManager._trades: a list of references
    _trade_counter,     \* ManualTradeManager._trade_counter
    request,            \* the arguments of the last call or web request
    returned,           \* what the last ManualTradeManager call returned
    _analysis_cache,    \* webapp/app.py _analysis_cache: cache key -> entry
    pc,                 \* where each request thread of the web app stands
    locals,             \* the local variables of each request thread
    raised              \* TRUE iff the call ended in an exception

marketVars == <<candles, levels, num_levels, trend, strength, volatility,
                found_lows, found_highs, support_levels, resistance_levels,
                clustered>>

evalResults == <<entry_quality, exit_quality, risk_reward, aligned, discipline,
                 evaluation>>

evalVars == <<trade, context, evalResults>>

batchVars == <<trades, evaluations, metrics, additional>>

reviewVars == <<returned_context, review>>

managerVars == <<heap, _trades, _trade_counter, request, returned>>

threadVars == <<pc, locals>>

webVars == <<_analysis_cache, threadVars>>

vars == <<marketVars, evalVars, batchVars, reviewVars, managerVars, webVars,
          op, raised>>

----------------------------------------------------------------------------
(* Exact arithmetic standing for the code's float arithmetic *)

Abs(x) == IF x < 0 THEN 0 - x ELSE x

RECURSIVE GCD(_, _)
GCD(a, b) == IF b = 0 THEN a ELSE GCD(b, a % b)

Rat(n, d) ==
    LET g == GCD(Abs(n), Abs(d))
        s == IF d < 0 THEN 0 - 1 ELSE 1
    IN  <<(s * n) \div g, (s * d) \div g>>

FromInt(n) == <<n, 1>>
Zero == <<0, 1>>
One == <<1, 1>>

RAdd(p, q) == Rat(p[1] * q[2] + q[1] * p[2], p[2] * q[2])
RSub(p, q) == Rat(p[1] * q[2] - q[1] * p[2], p[2] * q[2])
RMul(p, q) == Rat(p[1] * q[1], p[2] * q[2])
RDiv(p, q) == Rat(p[1] * q[2], p[2] * q[1])
RNeg(p) == <<0 - p[1], p[2]>>
RLt(p, q) == p[1] * q[2] < q[1] * p[2]
RLe(p, q) == p[1] * q[2] <= q[1] * p[2]
RMax(p, q) == IF RLt(p, q) THEN q ELSE p
RMin(p, q) == IF RLt(q, p) THEN q ELSE p

RECURSIVE SumInt(_)
SumInt(s) == IF s = <<>> THEN 0 ELSE Head(s) + SumInt(Tail(s))

RECURSIVE np_sum(_)
np_sum(s) == IF s = <<>> THEN Zero ELSE RAdd(Head(s), np_sum(Tail(s)))

np_mean(s) == RDiv(np_sum(s), FromInt(Len(s)))

----------------------------------------------------------------------------
(* MarketAnalyzer.calculate_trend *)

\* np.polyfit(x, closes, 1)[0]: the least-squares slope of closes against x
polyfit_slope(x, closes) ==
    LET n == Len(x)
        sx == SumInt(x)
        sxx == SumInt([i \in 1..n |-> x[i] * x[i]])
        sy == np_sum(closes)
        sxy == np_sum([i \in 1..n |-> RMul(FromInt(x[i]), closes[i])])
    IN  RDiv(RSub(RMul(FromInt(n), sxy), RMul(FromInt(sx), sy)),
             FromInt(n * sxx - sx * sx))

\* y_pred = slope * x + np.mean(closes); ss_res, ss_tot; r_squared
r_squared(x, closes, slope) ==
    LET n == Len(x)
        mean == np_mean(closes)
        y_pred == [i \in 1..n |-> RAdd(RMul(slope, FromInt(x[i])), mean)]
        ss_res == np_sum([i \in 1..n |->
                     RMul(RSub(closes[i], y_pred[i]), RSub(closes[i], y_pred[i]))])
        ss_tot == np_sum([i \in 1..n |->
                     RMul(RSub(closes[i], mean), RSub(closes[i], mean))])
    IN  IF RLt(Zero, ss_tot) THEN RSub(One, RDiv(ss_res, ss_tot)) ELSE Zero

threshold == <<1, 1000>>

trend_direction_nonstrict(normalized_slope) ==
    IF RLe(threshold, normalized_slope) THEN "bullish"
    ELSE IF RLe(normalized_slope, RNeg(threshold)) THEN "bearish"
    ELSE "neutral"

trend_direction(normalized_slope) ==
    IF RLt(threshold, normalized_slope) THEN "bullish"
    ELSE IF RLt(normalized_slope, RNeg(threshold)) THEN "bearish"
    ELSE "neutral"

clamp_strength_unclamped(r2) == r2

clamp_strength(r2) == RMax(Zero, RMin(One, r2))

calculate_trend(ohlcv_data) ==
    IF Len(ohlcv_data) < 2 THEN <<"neutral", Zero>>
    ELSE
        LET n == Len(ohlcv_data)
            closes == [i \in 1..n |-> FromInt(ohlcv_data[i].close)]
            x == [i \in 1..n |-> i - 1]
            slope == polyfit_slope(x, closes)
            r2 == r_squared(x, closes, slope)
            avg_price == np_mean(closes)
            normalized_slope ==
                IF RLt(Zero, avg_price) THEN RDiv(slope, avg_price) ELSE Zero
        IN  <<trend_direction(normalized_slope), clamp_strength(r2)>>

----------------------------------------------------------------------------
(* MarketAnalyzer.calculate_volatility *)

Max3(a, b, c) ==
    LET m == IF a >= b THEN a ELSE b
    IN  IF m >= c THEN m ELSE c

true_range_no_gap(ohlcv_data, i) == ohlcv_data[i].high - ohlcv_data[i].low

\* tr of candle i (1-based, i >= 2) against the previous candle's close
true_range(ohlcv_data, i) ==
    LET high == ohlcv_data[i].high
        low == ohlcv_data[i].low
        prev_close == ohlcv_data[i - 1].close
    IN  Max3(high - low, Abs(high - prev_close), Abs(low - prev_close))

\* no early return, and the loop starting at the first candle, whose
\* "previous" candle ohlcv_data[-1] is then the last one
calculate_volatility_from_first(ohlcv_data) ==
    LET n == Len(ohlcv_data)
        prev(i) == IF i = 1 THEN n ELSE i - 1
        true_ranges == [i \in 1..n |->
            FromInt(Max3(ohlcv_data[i].high - ohlcv_data[i].low,
                         Abs(ohlcv_data[i].high - ohlcv_data[prev(i)].close),
                         Abs(ohlcv_data[i].low - ohlcv_data[prev(i)].close)))]
    IN  IF true_ranges # <<>> THEN np_mean(true_ranges) ELSE Zero

calculate_volatility(ohlcv_data) ==
    IF Len(ohlcv_data) < 2 THEN Zero
    ELSE
        LET true_ranges == [k \in 1..(Len(ohlcv_data) - 1) |->
                               FromInt(true_range(ohlcv_data, k + 1))]
        IN  IF true_ranges # <<>> THEN np_mean(true_ranges) ELSE Zero

----------------------------------------------------------------------------
(* MarketAnalyzer._cluster_levels *)

sorted(s) == SortSeq(s, LAMBDA a, b: a < b)

sorted_rat(s) == SortSeq(s, LAMBDA p, q: RLt(p, q))

Take(s, k) == SubSeq(s, 1, IF Len(s) < k THEN Len(s) ELSE k)

Last(s) == s[Len(s)]

one_percent == <<1, 100>>

within_one_percent_of_first(level, current_cluster) ==
    RLt(RDiv(FromInt(Abs(level - current_cluster[1])), FromInt(current_cluster[1])),
        one_percent)

\* abs(level - current_cluster[-1]) / current_cluster[-1] < 0.01
within_one_percent(level, current_cluster) ==
    RLt(RDiv(FromInt(Abs(level - Last(current_cluster))), FromInt(Last(current_cluster))),
        one_percent)

cluster_mean(current_cluster) == np_mean([i \in 1..Len(current_cluster) |->
                                             FromInt(current_cluster[i])])

\* the for loop over levels[1:] and the final append of the open cluster
RECURSIVE cluster_walk(_, _, _)
cluster_walk(rest, current_cluster, clusters) ==
    IF rest = <<>> THEN Append(clusters, cluster_mean(current_cluster))
    ELSE IF within_one_percent(Head(rest), current_cluster)
         THEN cluster_walk(Tail(rest), Append(current_cluster, Head(rest)), clusters)
         ELSE cluster_walk(Tail(rest), <<Head(rest)>>,
                           Append(clusters, cluster_mean(current_cluster)))

top_clusters_highest(clusters, num_clusters) ==
    SubSeq(sorted_rat(clusters),
           IF Len(clusters) > num_clusters THEN Len(clusters) - num_clusters + 1 ELSE 1,
           Len(clusters))

\* sorted(clusters)[:num_clusters]
top_clusters(clusters, num_clusters) == Take(sorted_rat(clusters), num_clusters)

\* The division by current_cluster[-1] raises ZeroDivisionError on a level of 0
\* once the walk is entered.
cluster_levels_raises(lvls, num_clusters) ==
    /\ Len(lvls) > num_clusters
    /\ \E i \in 1..(Len(lvls) - 1) : sorted(lvls)[i] = 0

cluster_levels(lvls, num_clusters) ==
    IF lvls = <<>> THEN <<>>
    ELSE LET s == sorted(lvls)
         IN  IF Len(s) <= num_clusters
             THEN [i \in 1..Len(s) |-> FromInt(s[i])]
             ELSE top_clusters(cluster_walk(Tail(s), <<Head(s)>>, <<>>), num_clusters)

----------------------------------------------------------------------------
(* MarketAnalyzer.find_support_resistance *)

is_swing_low_nonstrict(ohlcv_data, i) ==
    /\ ohlcv_data[i].low <= ohlcv_data[i - 1].low
    /\ ohlcv_data[i].low <= ohlcv_data[i + 1].low

is_swing_low(ohlcv_data, i) ==
    /\ ohlcv_data[i].low < ohlcv_data[i - 1].low
    /\ ohlcv_data[i].low < ohlcv_data[i + 1].low

is_swing_high(ohlcv_data, i) ==
    /\ ohlcv_data[i].high > ohlcv_data[i - 1].high
    /\ ohlcv_data[i].high > ohlcv_data[i + 1].high

\* the loop "for i in range(1, len(ohlcv_data) - 1)", i here 1-based
RECURSIVE swing_lows_from(_, _)
swing_lows_from(ohlcv_data, i) ==
    IF i > Len(ohlcv_data) - 1 THEN <<>>
    ELSE (IF is_swing_low(ohlcv_data, i) THEN <<ohlcv_data[i].low>> ELSE <<>>)
         \o swing_lows_from(ohlcv_data, i + 1)

RECURSIVE swing_highs_from(_, _)
swing_highs_from(ohlcv_data, i) ==
    IF i > Len(ohlcv_data) - 1 THEN <<>>
    ELSE (IF is_swing_high(ohlcv_data, i) THEN <<ohlcv_data[i].high>> ELSE <<>>)
         \o swing_highs_from(ohlcv_data, i + 1)

swing_lows(ohlcv_data) ==
    IF Len(ohlcv_data) < 3 THEN <<>> ELSE swing_lows_from(ohlcv_data, 2)

swing_highs(ohlcv_data) ==
    IF Len(ohlcv_data) < 3 THEN <<>> ELSE swing_highs_from(ohlcv_data, 2)

find_support_resistance(ohlcv_data, n_levels) ==
    IF Len(ohlcv_data) < 3 THEN <<<<>>, <<>>>>
    ELSE <<cluster_levels(swing_lows(ohlcv_data), n_levels),
           cluster_levels(swing_highs(ohlcv_data), n_levels)>>

find_support_resistance_raises(ohlcv_data, n_levels) ==
    /\ Len(ohlcv_data) >= 3
    /\ \/ cluster_levels_raises(swing_lows(ohlcv_data), n_levels)
       \/ cluster_levels_raises(swing_highs(ohlcv_data), n_levels)

----------------------------------------------------------------------------
(* MarketAnalyzer.analyze_market_context.  symbol, start_date and end_date *)
(* are copied into the result unread and are left out.                     *)

\* num_levels: int = 3
DefaultNumLevels == 3

\* np.mean(volumes) if volumes else 0.0
average_volume(ohlcv_data) ==
    IF ohlcv_data # <<>>
    THEN np_mean([i \in 1..Len(ohlcv_data) |-> FromInt(ohlcv_data[i].volume)])
    ELSE Zero

analyze_market_context(ohlcv_data) ==
    [trend |-> calculate_trend(ohlcv_data)[1],
     trend_strength |-> calculate_trend(ohlcv_data)[2],
     volatility |-> calculate_volatility(ohlcv_data),
     support_levels |-> find_support_resistance(ohlcv_data, DefaultNumLevels)[1],
     resistance_levels |-> find_support_resistance(ohlcv_data, DefaultNumLevels)[2],
     average_volume |-> average_volume(ohlcv_data)]

----------------------------------------------------------------------------
(* Inputs of the market-analysis functions *)

MaxLen == 3
MaxSwingLen == 5
MaxLevelsLen == 4
MaxNumLevels == 3

SeqsUpTo(S, n) == UNION {[1..k -> S] : k \in 0..n}

\* Closes around 2000 put slope / mean(close) on both sides of, and exactly
\* on, the 0.001 threshold.
CloseBands == {1998..2002, 100..102}

\* The OHLCV model accepts any float: closes around 0 give a mean close that
\* is zero or negative.
NonPositiveBand == (0 - 1)..1

CandleAt(c) == [high |-> c + 1, low |-> c - 1, close |-> c, volume |-> 500]

TrendWindows ==
    UNION {{[i \in DOMAIN w |-> CandleAt(w[i])] : w \in SeqsUpTo(band, MaxLen)} :
           band \in CloseBands}

NonPositiveWindows ==
    {[i \in DOMAIN w |-> CandleAt(w[i])] : w \in SeqsUpTo(NonPositiveBand, MaxLen)}

\* Each of the three terms of the true range is the largest for some pair of
\* consecutive candles; high below low is not rejected by the OHLCV model.
VolCandles == [high : {14, 16}, low : {12, 15}, close : {13, 20}, volume : {500}]

VolWindows == SeqsUpTo(VolCandles, MaxLen)

\* Lows 1000, 1005, 1010: 1005 is within 1% of 1000 and 1010 within 1% of
\* 1005, while 1010 is exactly 1% above 1000; likewise highs 1100, 1105, 1111.
SwingCandles ==
    {[high |-> 1090, low |-> 1030, close |-> 1050, volume |-> 500],
     [high |-> 1100, low |-> 1000, close |-> 1050, volume |-> 500],
     [high |-> 1105, low |-> 1005, close |-> 1050, volume |-> 500],
     [high |-> 1111, low |-> 1010, close |-> 1050, volume |-> 500]}

SwingWindows == SeqsUpTo(SwingCandles, MaxSwingLen)

LevelLists == SeqsUpTo({1000, 1005, 1010, 1030}, MaxLevelsLen)

MarketInputs ==
    [candles : TrendWindows \cup VolWindows, levels : {<<>>},
     num_levels : {DefaultNumLevels}]
    \cup [candles : SwingWindows, levels : {<<>>}, num_levels : 1..MaxNumLevels]
    \cup [candles : {<<>>}, levels : LevelLists, num_levels : 1..MaxNumLevels]

NoTrade == [trade_id |-> "T-1", side |-> "buy", entry_price |-> 1000,
            exit_price |-> <<>>, stop_loss |-> <<>>, take_profit |-> <<>>,
            pnl |-> <<>>, notes |-> <<>>]

NoContext == [trend |-> "neutral", support_levels |-> <<>>,
              resistance_levels |-> <<>>]

\* the trades of the period handed to analyze_period: none, or one open buy
PeriodTrades == {<<>>, <<NoTrade>>}

\* the request threads of the web application that the interleavings follow:
\* two handling POST /api/trades/manual, one handling GET /api/analyze-live
AddThreads == {"add-1", "add-2"}

Threads == AddThreads \cup {"analysis"}

ResultsUnset ==
    /\ trend = "unset"
    /\ strength = Zero
    /\ volatility = Zero
    /\ found_lows = <<>>
    /\ found_highs = <<>>
    /\ support_levels = <<>>
    /\ resistance_levels = <<>>
    /\ clustered = <<>>
    /\ entry_quality = "unset"
    /\ exit_quality = <<>>
    /\ risk_reward = <<>>
    /\ aligned = FALSE
    /\ discipline = "unset"
    /\ evaluation = <<>>
    /\ evaluations = <<>>
    /\ metrics = <<>>
    /\ additional = <<>>
    /\ returned_context = <<>>
    /\ review = <<>>
    /\ heap = <<>>
    /\ _trades = <<>>
    /\ _trade_counter = 0
    /\ request = <<>>
    /\ returned = <<>>
    /\ _analysis_cache = <<>>
    /\ pc = [t \in Threads |-> "idle"]
    /\ locals = [t \in Threads |-> <<>>]
    /\ raised = FALSE

InitMarket ==
    /\ \E inp \in MarketInputs :
          /\ candles = inp.candles
          /\ levels = inp.levels
          /\ num_levels = inp.num_levels
    /\ trade = NoTrade
    /\ context = NoContext
    /\ trades \in PeriodTrades
    /\ op = "ready"
    /\ ResultsUnset

\* InitMarket, and the windows whose closes are not all positive
InitMarketAny ==
    /\ \E inp \in MarketInputs \cup [candles : NonPositiveWindows, levels : {<<>>},
                                     num_levels : {DefaultNumLevels}] :
          /\ candles = inp.candles
          /\ levels = inp.levels
          /\ num_levels = inp.num_levels
    /\ trade = NoTrade
    /\ context = NoContext
    /\ trades \in PeriodTrades
    /\ op = "ready"
    /\ ResultsUnset

CalculateTrend ==
    /\ op = "ready"
    /\ op' = "calculate_trend"
    /\ trend' = calculate_trend(candles)[1]
    /\ strength' = calculate_trend(candles)[2]
    /\ raised' = FALSE
    /\ UNCHANGED <<candles, levels, num_levels, volatility, found_lows,
                   found_highs, support_levels, resistance_levels, clustered,
                   evalVars, batchVars, reviewVars, webVars, managerVars>>

CalculateVolatility ==
    /\ op = "ready"
    /\ op' = "calculate_volatility"
    /\ volatility' = calculate_volatility(candles)
    /\ raised' = FALSE
    /\ UNCHANGED <<candles, levels, num_levels, trend, strength, found_lows,
                   found_highs, support_levels, resistance_levels, clustered,
                   evalVars, batchVars, reviewVars, webVars, managerVars>>

FindSupportResistance ==
    /\ op = "ready"
    /\ op' = "find_support_resistance"
    /\ raised' = find_support_resistance_raises(candles, num_levels)
    /\ found_lows' = swing_lows(candles)
    /\ found_highs' = swing_highs(candles)
    /\ IF find_support_resistance_raises(candles, num_levels)
       THEN UNCHANGED <<support_levels, resistance_levels>>
       ELSE /\ support_levels' = find_support_resistance(candles, num_levels)[1]
            /\ resistance_levels' = find_support_resistance(candles, num_levels)[2]
    /\ UNCHANGED <<candles, levels, num_levels, trend, strength, volatility,
                   clustered, evalVars, batchVars, reviewVars, webVars,
                   managerVars>>

ClusterLevels ==
    /\ op = "ready"
    /\ op' = "cluster_levels"
    /\ raised' = cluster_levels_raises(levels, num_levels)
    /\ IF cluster_levels_raises(levels, num_levels)
       THEN UNCHANGED clustered
       ELSE clustered' = cluster_levels(levels, num_levels)
    /\ UNCHANGED <<candles, levels, num_levels, trend, strength, volatility,
                   found_lows, found_highs, support_levels, resistance_levels,
                   evalVars, batchVars, reviewVars, webVars, managerVars>>

----------------------------------------------------------------------------
(* TradeEvaluator.evaluate_entry_quality *)

None == <<>>

Some(v) == <<v>>

RAbs(p) == <<Abs(p[1]), p[2]>>

\* the first if / elif chain: the points for the trade's side against the trend
trend_points(t, market_context) ==
    IF market_context.trend = "bullish" /\ t.side = "buy" THEN 2
    ELSE IF market_context.trend = "bearish" /\ t.side = "sell" THEN 2
    ELSE IF market_context.trend = "neutral" THEN 1
    ELSE 0 - 1

near_any_level_inclusive(entry_price, lvls) ==
    \E i \in 1..Len(lvls) :
        RLe(RDiv(RAbs(RSub(FromInt(entry_price), lvls[i])), lvls[i]), one_percent)

\* any(abs(trade.entry_price - level) / level < 0.01 for level in ...)
near_any_level(entry_price, lvls) ==
    \E i \in 1..Len(lvls) :
        RLt(RDiv(RAbs(RSub(FromInt(entry_price), lvls[i])), lvls[i]), one_percent)

\* the if trade.side == "buy" / else block
level_points(t, market_context) ==
    IF t.side = "buy"
    THEN (IF near_any_level(t.entry_price, market_context.support_levels)
          THEN 2 ELSE 0)
    ELSE (IF near_any_level(t.entry_price, market_context.resistance_levels)
          THEN 2 ELSE 0)

entry_tier(score) ==
    IF score >= 3 THEN "good"
    ELSE IF score >= 1 THEN "acceptable"
    ELSE "poor"

evaluate_entry_quality(t, market_context) ==
    entry_tier(trend_points(t, market_context) + level_points(t, market_context))

----------------------------------------------------------------------------
(* TradeEvaluator.evaluate_exit_quality *)

two_percent == <<1, 50>>

pnl_pct(t) ==
    IF t.side = "buy"
    THEN RDiv(FromInt(t.exit_price[1] - t.entry_price), FromInt(t.entry_price))
    ELSE RDiv(FromInt(t.entry_price - t.exit_price[1]), FromInt(t.entry_price))

pnl_points_inclusive(pct) ==
    IF RLe(two_percent, pct) THEN 2
    ELSE IF RLt(Zero, pct) THEN 1
    ELSE IF RLe(pct, RNeg(two_percent)) THEN 0 - 2
    ELSE 0 - 1

pnl_points(pct) ==
    IF RLt(two_percent, pct) THEN 2
    ELSE IF RLt(Zero, pct) THEN 1
    ELSE IF RLt(pct, RNeg(two_percent)) THEN 0 - 2
    ELSE 0 - 1

risk_management_points(t) ==
    (IF t.stop_loss # None THEN 1 ELSE 0) + (IF t.take_profit # None THEN 1 ELSE 0)

exit_tier(score) ==
    IF score >= 3 THEN "good"
    ELSE IF score >= 0 THEN "acceptable"
    ELSE "poor"

evaluate_exit_quality(t, market_context) ==
    IF t.exit_price = None THEN None
    ELSE Some(exit_tier(pnl_points(pnl_pct(t)) + risk_management_points(t)))

----------------------------------------------------------------------------
(* TradeEvaluator.calculate_risk_reward *)

\* risk and reward exchanged
calculate_risk_reward_inverted(t) ==
    IF t.stop_loss = None \/ t.take_profit = None THEN None
    ELSE LET risk == Abs(t.entry_price - t.stop_loss[1])
             reward == Abs(t.take_profit[1] - t.entry_price)
         IN  IF risk = 0 \/ reward = 0 THEN None
             ELSE Some(RDiv(FromInt(risk), FromInt(reward)))

calculate_risk_reward(t) ==
    IF t.stop_loss = None \/ t.take_profit = None THEN None
    ELSE LET risk == IF t.side = "buy"
                     THEN Abs(t.entry_price - t.stop_loss[1])
                     ELSE Abs(t.stop_loss[1] - t.entry_price)
             reward == IF t.side = "buy"
                       THEN Abs(t.take_profit[1] - t.entry_price)
                       ELSE Abs(t.entry_price - t.take_profit[1])
         IN  IF risk = 0 THEN None
             ELSE Some(RDiv(FromInt(reward), FromInt(risk)))

----------------------------------------------------------------------------
(* TradeEvaluator.check_trend_alignment *)

\* a neutral trend counted as not aligned
check_trend_alignment_not_neutral(t, market_context) ==
    \/ market_context.trend = "bullish" /\ t.side = "buy"
    \/ market_context.trend = "bearish" /\ t.side = "sell"

check_trend_alignment(t, market_context) ==
    IF market_context.trend = "bullish" /\ t.side = "buy" THEN TRUE
    ELSE IF market_context.trend = "bearish" /\ t.side = "sell" THEN TRUE
    ELSE IF market_context.trend = "neutral" THEN TRUE
    ELSE FALSE

----------------------------------------------------------------------------
(* TradeEvaluator.evaluate_execution_discipline *)

Two == <<2, 1>>

note_points_any_note(t) == IF t.notes # None THEN 1 ELSE 0

\* "if trade.notes": None and the empty string earn nothing
note_points(t) == IF t.notes # None /\ t.notes # Some("") THEN 1 ELSE 0

risk_reward_points(rr) ==
    IF rr # None /\ RLe(Two, rr[1]) THEN 2
    ELSE IF rr # None /\ RLe(One, rr[1]) THEN 1
    ELSE 0

discipline_tier(score) ==
    IF score >= 5 THEN "high"
    ELSE IF score >= 3 THEN "medium"
    ELSE "low"

evaluate_execution_discipline(t) ==
    discipline_tier((IF t.stop_loss # None THEN 2 ELSE 0)
                    + (IF t.take_profit # None THEN 2 ELSE 0)
                    + note_points(t)
                    + risk_reward_points(calculate_risk_reward(t)))

----------------------------------------------------------------------------
(* TradeEvaluator.evaluate_trade *)

\* f"{risk_reward:.2f}": the ratio in hundredths, rounded to the nearest,
\* an exact tie going to the even hundredth
format_2f(rr) ==
    LET scaled == RMul(rr, FromInt(100))
        q == scaled[1] \div scaled[2]
        twice_rest == 2 * (scaled[1] % scaled[2])
    IN  IF twice_rest > scaled[2] THEN q + 1
        ELSE IF twice_rest < scaled[2] THEN q
        ELSE IF q % 2 = 0 THEN q ELSE q + 1

EntryGoodText == "Entry was well-timed and aligned with market structure"
EntryPoorText == "Entry could be improved - consider market context"
CounterTrendText == "Trade was counter-trend - higher risk strategy"
FavorableText == "Favorable risk/reward ratio of {:.2f}"
ImproveText == "Risk/reward ratio of {:.2f} could be improved"
MissingText == "No stop loss or take profit set - missing risk management"
DisciplineText ==
    "Execution discipline needs improvement - use stop losses and take profits"

Remark(text) == [text |-> text, ratio |-> None]

RatioRemark(text, rr) == [text |-> text, ratio |-> Some(format_2f(rr))]

\* the discipline remark added whenever discipline is not "high"
key_observations_not_high(entry_q, is_aligned, rr, disc) ==
    (IF entry_q = "good" THEN <<Remark(EntryGoodText)>>
     ELSE IF entry_q = "poor" THEN <<Remark(EntryPoorText)>>
     ELSE <<>>)
    \o (IF ~is_aligned THEN <<Remark(CounterTrendText)>> ELSE <<>>)
    \o (IF rr # None
        THEN (IF RLe(Two, rr[1]) THEN <<RatioRemark(FavorableText, rr[1])>>
              ELSE <<RatioRemark(ImproveText, rr[1])>>)
        ELSE <<Remark(MissingText)>>)
    \o (IF disc # "high" THEN <<Remark(DisciplineText)>> ELSE <<>>)

\* observations = [] and the appends that follow
key_observations(entry_q, is_aligned, rr, disc) ==
    (IF entry_q = "good" THEN <<Remark(EntryGoodText)>>
     ELSE IF entry_q = "poor" THEN <<Remark(EntryPoorText)>>
     ELSE <<>>)
    \o (IF ~is_aligned THEN <<Remark(CounterTrendText)>> ELSE <<>>)
    \o (IF rr # None
        THEN (IF RLe(Two, rr[1]) THEN <<RatioRemark(FavorableText, rr[1])>>
              ELSE <<RatioRemark(ImproveText, rr[1])>>)
        ELSE <<Remark(MissingText)>>)
    \o (IF disc = "low" THEN <<Remark(DisciplineText)>> ELSE <<>>)

evaluate_trade(t, market_context) ==
    LET entry_q == evaluate_entry_quality(t, market_context)
        exit_q == evaluate_exit_quality(t, market_context)
        rr == calculate_risk_reward(t)
        is_aligned == check_trend_alignment(t, market_context)
        disc == evaluate_execution_discipline(t)
    IN  [trade_id |-> t.trade_id,
         entry_quality |-> entry_q,
         exit_quality |-> exit_q,
         risk_reward_ratio |-> rr,
         aligned_with_trend |-> is_aligned,
         execution_discipline |-> disc,
         key_observations |-> key_observations(entry_q, is_aligned, rr, disc)]

----------------------------------------------------------------------------
(* Inputs of the trade-evaluation functions.  Prices are positive.          *)

\* Entry 990 is exactly 1% below the level 1000; exits 1020 and 980 are
\* exactly 2% above and below the entry 1000.
\* Against the entry 1000, the stop 950 and the targets 1000, 1050, 1100 give
\* risk-reward ratios 0, 1 and 2; the stop 1000 gives a risk of zero.
Trades ==
    [trade_id : {"T-1"},
     side : {"buy", "sell"},
     entry_price : {990, 991, 1000},
     exit_price : {None, Some(979), Some(980), Some(1000), Some(1020), Some(1021)},
     stop_loss : {None, Some(950), Some(1000)},
     take_profit : {None, Some(1000), Some(1050), Some(1100)},
     pnl : {None},
     notes : {None, Some(""), Some("plan")}]
    \cup
    [trade_id : {"T-2"},
     side : {"buy", "sell"},
     entry_price : {100},
     exit_price : {None},
     stop_loss : {Some(90)},
     take_profit : {Some(120), Some(108)},
     pnl : {None},
     notes : {None, Some("plan")}]

Contexts ==
    [trend : {"bullish", "bearish", "neutral"},
     support_levels : {<<>>, <<<<900, 1>>, <<1000, 1>>>>, <<<<2003, 2>>>>},
     resistance_levels : {<<>>, <<<<1000, 1>>>>}]

InitEval ==
    /\ trade \in Trades
    /\ context \in Contexts
    /\ trades = <<>>
    /\ candles = <<>>
    /\ levels = <<>>
    /\ num_levels = DefaultNumLevels
    /\ op = "ready"
    /\ ResultsUnset

EvaluateEntryQuality ==
    /\ op = "ready"
    /\ op' = "evaluate_entry_quality"
    /\ entry_quality' = evaluate_entry_quality(trade, context)
    /\ raised' = FALSE
    /\ UNCHANGED <<managerVars, reviewVars, webVars, marketVars,
                   batchVars, trade, context, exit_quality, risk_reward, aligned,
                   discipline, evaluation>>

EvaluateExitQuality ==
    /\ op = "ready"
    /\ op' = "evaluate_exit_quality"
    /\ exit_quality' = evaluate_exit_quality(trade, context)
    /\ raised' = FALSE
    /\ UNCHANGED <<managerVars, reviewVars, webVars, marketVars,
                   batchVars, trade, context, entry_quality, risk_reward, aligned,
                   discipline, evaluation>>

CalculateRiskReward ==
    /\ op = "ready"
    /\ op' = "calculate_risk_reward"
    /\ risk_reward' = calculate_risk_reward(trade)
    /\ raised' = FALSE
    /\ UNCHANGED <<managerVars, reviewVars, webVars, marketVars,
                   batchVars, trade, context, entry_quality, exit_quality, aligned,
                   discipline, evaluation>>

CheckTrendAlignment ==
    /\ op = "ready"
    /\ op' = "check_trend_alignment"
    /\ aligned' = check_trend_alignment(trade, context)
    /\ raised' = FALSE
    /\ UNCHANGED <<managerVars, reviewVars, webVars, marketVars,
                   batchVars, trade, context, entry_quality, exit_quality,
                   risk_reward, discipline, evaluation>>

EvaluateExecutionDiscipline ==
    /\ op = "ready"
    /\ op' = "evaluate_execution_discipline"
    /\ discipline' = evaluate_execution_discipline(trade)
    /\ raised' = FALSE
    /\ UNCHANGED <<managerVars, reviewVars, webVars, marketVars,
                   batchVars, trade, context, entry_quality, exit_quality,
                   risk_reward, aligned, evaluation>>

EvaluateTrade ==
    /\ op = "ready"
    /\ op' = "evaluate_trade"
    /\ evaluation' = Some(evaluate_trade(trade, context))
    /\ raised' = FALSE
    /\ UNCHANGED <<managerVars, reviewVars, webVars, marketVars,
                   batchVars, trade, context, entry_quality, exit_quality,
                   risk_reward, aligned, discipline>>

NextEval ==
    \/ EvaluateEntryQuality
    \/ EvaluateExitQuality
    \/ CalculateRiskReward
    \/ CheckTrendAlignment
    \/ EvaluateExecutionDiscipline
    \/ EvaluateTrade

SpecEval == InitEval /\ [][NextEval]_vars

----------------------------------------------------------------------------
(* TradeEvaluator.evaluate_trades *)

\* evaluations of the trades that have an exit price only
evaluate_trades_closed_only(ts, market_context) ==
    LET kept == SelectSeq(ts, LAMBDA t : t.exit_price # None)
    IN  [i \in 1..Len(kept) |-> evaluate_trade(kept[i], market_context)]

RECURSIVE observations_up_to(_, _, _)
observations_up_to(ts, market_context, i) ==
    IF i = 0 THEN <<>>
    ELSE observations_up_to(ts, market_context, i - 1)
         \o evaluate_trade(ts[i], market_context).key_observations

\* one observations list shared by the calls of a batch
evaluate_trades_shared_observations(ts, market_context) ==
    [i \in 1..Len(ts) |->
        [evaluate_trade(ts[i], market_context)
            EXCEPT !.key_observations = observations_up_to(ts, market_context, i)]]

evaluate_trades(ts, market_context) ==
    [i \in 1..Len(ts) |-> evaluate_trade(ts[i], market_context)]

----------------------------------------------------------------------------
(* TradeReviewSystem._calculate_performance_metrics.  P&L is an integer;   *)
(* the averages and the rate are exact rationals.                           *)

\* [t for t in trades if t.pnl is not None]
closed_by_pnl(ts) == SelectSeq(ts, LAMBDA t : t.pnl # None)

pnl_values(ts) == [i \in 1..Len(ts) |-> ts[i].pnl[1]]

\* aligned evaluations of closed trades only
count_with_trend_closed_only(evals) ==
    Len(SelectSeq(evals, LAMBDA e : e.aligned_with_trend /\ e.exit_quality # None))

count_with_trend(evals) == Len(SelectSeq(evals, LAMBDA e : e.aligned_with_trend))

calculate_performance_metrics(ts, evals) ==
    LET total_trades == Len(ts)
        closed_trades == closed_by_pnl(ts)
        winning_trades == Len(SelectSeq(closed_trades, LAMBDA t : t.pnl[1] > 0))
        losing_trades == Len(SelectSeq(closed_trades, LAMBDA t : t.pnl[1] < 0))
        total_pnl == SumInt(pnl_values(closed_trades))
        avg_pnl == IF closed_trades # <<>>
                   THEN RDiv(FromInt(total_pnl), FromInt(Len(closed_trades)))
                   ELSE Zero
        win_rate == IF closed_trades # <<>>
                    THEN RMul(RDiv(FromInt(winning_trades),
                                   FromInt(Len(closed_trades))),
                              FromInt(100))
                    ELSE Zero
        trades_with_trend == count_with_trend(evals)
    IN  [total_trades |-> total_trades,
         closed_trades |-> Len(closed_trades),
         open_trades |-> total_trades - Len(closed_trades),
         winning_trades |-> winning_trades,
         losing_trades |-> losing_trades,
         win_rate |-> win_rate,
         total_pnl |-> total_pnl,
         avg_pnl |-> avg_pnl,
         trades_with_trend |-> trades_with_trend,
         trades_against_trend |-> total_trades - trades_with_trend,
         high_discipline_trades |->
             Len(SelectSeq(evals, LAMBDA e : e.execution_discipline = "high")),
         good_entry_trades |-> Len(SelectSeq(evals, LAMBDA e : e.entry_quality = "good"))]

----------------------------------------------------------------------------
(* utils.calculate_additional_metrics *)

\* float('inf')
Infinity == <<1, 0>>

\* the loop's state is <<cumulative_pnl, peak, max_dd>>
RECURSIVE drawdown_loop(_, _)
drawdown_loop(pnls, acc) ==
    IF pnls = <<>> THEN acc
    ELSE LET cumulative_pnl == acc[1] + Head(pnls)
             peak == IF cumulative_pnl > acc[2] THEN cumulative_pnl ELSE acc[2]
             drawdown == peak - cumulative_pnl
             max_dd == IF drawdown > acc[3] THEN drawdown ELSE acc[3]
         IN  drawdown_loop(Tail(pnls), <<cumulative_pnl, peak, max_dd>>)

\* the peak starting at the first cumulative value instead of 0
max_drawdown_peak_from_first(pnls) ==
    IF pnls = <<>> THEN 0
    ELSE drawdown_loop(Tail(pnls), <<Head(pnls), Head(pnls), 0>>)[3]

max_drawdown(pnls) == drawdown_loop(pnls, <<0, 0, 0>>)[3]

RECURSIVE max_of(_)
max_of(s) ==
    IF Len(s) = 1 THEN Head(s)
    ELSE IF Head(s) > max_of(Tail(s)) THEN Head(s) ELSE max_of(Tail(s))

calculate_additional_metrics(ts) ==
    LET closed_trades == closed_by_pnl(ts)
        wins == SelectSeq(pnl_values(closed_trades), LAMBDA v : v > 0)
        negatives == SelectSeq(pnl_values(closed_trades), LAMBDA v : v < 0)
        losses == [i \in 1..Len(negatives) |-> Abs(negatives[i])]
        total_wins == SumInt(wins)
        total_losses == SumInt(losses)
    IN  IF closed_trades = <<>>
        THEN [max_drawdown |-> Zero, avg_win |-> Zero, avg_loss |-> Zero,
              profit_factor |-> Zero, largest_win |-> Zero, largest_loss |-> Zero]
        ELSE [max_drawdown |-> FromInt(max_drawdown(pnl_values(closed_trades))),
              avg_win |-> IF wins # <<>>
                          THEN RDiv(FromInt(total_wins), FromInt(Len(wins)))
                          ELSE Zero,
              avg_loss |-> IF losses # <<>>
                           THEN RDiv(FromInt(total_losses), FromInt(Len(losses)))
                           ELSE Zero,
              profit_factor |-> IF total_losses > 0
                                THEN RDiv(FromInt(total_wins), FromInt(total_losses))
                                ELSE Infinity,
              largest_win |-> IF wins # <<>> THEN FromInt(max_of(wins)) ELSE Zero,
              largest_loss |-> IF losses # <<>> THEN FromInt(max_of(losses))
                               ELSE Zero]

----------------------------------------------------------------------------
(* Inputs of the batch functions.  load_trades reads exit_price and pnl    *)
(* from separate CSV columns, so either can be present without the other.  *)

MaxBatch == 3

MaxPnlLen == 4

BatchTrade(id, side, exit_price, pnl, stop_loss, take_profit) ==
    [trade_id |-> id, side |-> side, entry_price |-> 1000,
     exit_price |-> exit_price, stop_loss |-> stop_loss,
     take_profit |-> take_profit, pnl |-> pnl, notes |-> None]

BatchTrades ==
    {BatchTrade("T-1", "buy", Some(1050), Some(50), Some(950), Some(1100)),
     BatchTrade("T-2", "sell", Some(1020), Some(0 - 20), None, None),
     BatchTrade("T-3", "buy", Some(1030), Some(30), Some(950), None),
     BatchTrade("T-4", "buy", Some(1000), Some(0), None, None),
     BatchTrade("T-5", "sell", None, None, Some(1050), Some(900)),
     BatchTrade("T-6", "buy", Some(1050), None, None, None),
     BatchTrade("T-7", "sell", None, Some(50), None, None)}

BatchContexts ==
    [trend : {"bullish", "bearish", "neutral"},
     support_levels : {<<>>},
     resistance_levels : {<<>>}]

PnlTrades ==
    {BatchTrade("T-1", "buy", Some(1050), Some(50), None, None),
     BatchTrade("T-2", "buy", Some(980), Some(0 - 20), None, None),
     BatchTrade("T-3", "buy", Some(940), Some(0 - 60), None, None),
     BatchTrade("T-5", "buy", None, None, None, None)}

InitBatch ==
    /\ trades \in SeqsUpTo(BatchTrades, MaxBatch)
    /\ context \in BatchContexts
    /\ trade = NoTrade
    /\ candles = <<>>
    /\ levels = <<>>
    /\ num_levels = DefaultNumLevels
    /\ op = "ready"
    /\ ResultsUnset

InitUtils ==
    /\ trades \in SeqsUpTo(PnlTrades, MaxPnlLen)
    /\ context = NoContext
    /\ trade = NoTrade
    /\ candles = <<>>
    /\ levels = <<>>
    /\ num_levels = DefaultNumLevels
    /\ op = "ready"
    /\ ResultsUnset

EvaluateTrades ==
    /\ op \in {"ready", "get_trades"}
    /\ op' = "evaluate_trades"
    /\ evaluations' = evaluate_trades(trades, context)
    /\ raised' = FALSE
    /\ UNCHANGED <<managerVars, reviewVars, webVars, marketVars,
                   evalVars, trades, metrics, additional>>

\* one more call of evaluate_trade, on a trade of the batch just evaluated
EvaluateTradeAgain ==
    /\ op = "evaluate_trades"
    /\ \E i \in 1..Len(trades) :
          /\ trade' = trades[i]
          /\ evaluation' = Some(evaluate_trade(trades[i], context))
    /\ op' = "evaluate_trade"
    /\ raised' = FALSE
    /\ UNCHANGED <<managerVars, reviewVars, webVars, marketVars,
                   batchVars, context, entry_quality, exit_quality,
                   risk_reward, aligned, discipline>>

\* analyze_trades hands the trades and their evaluations to the metrics
CalculatePerformanceMetrics ==
    /\ op = "evaluate_trades"
    /\ op' = "_calculate_performance_metrics"
    /\ metrics' = Some(calculate_performance_metrics(trades, evaluations))
    /\ raised' = FALSE
    /\ UNCHANGED <<managerVars, reviewVars, webVars, marketVars,
                   evalVars, trades, evaluations, additional>>

CalculateAdditionalMetrics ==
    /\ op \in {"ready", "get_trades"}
    /\ op' = "calculate_additional_metrics"
    /\ additional' = Some(calculate_additional_metrics(trades))
    /\ raised' = FALSE
    /\ UNCHANGED <<managerVars, reviewVars, webVars, marketVars,
                   evalVars, trades, evaluations, metrics>>

NextBatch ==
    \/ EvaluateTrades
    \/ EvaluateTradeAgain
    \/ CalculatePerformanceMetrics

SpecBatch == InitBatch /\ [][NextBatch]_vars

NextUtils == CalculateAdditionalMetrics

SpecUtils == InitUtils /\ [][NextUtils]_vars

----------------------------------------------------------------------------
(* ManualTradeManager (live_data.py).  A Trade object is an entry of heap   *)
(* and is referred to by its index: _trades, the lists get_trades returns   *)
(* and the values handed to callers hold references, as in Python.  A       *)
(* symbol is a sequence of characters, a timestamp an integer.  Every       *)
(* method maps the manager m = [heap, trades, counter] to the manager       *)
(* after the call and its result.                                           *)

upper_char(c) ==
    CASE c = "a" -> "A"
      [] c = "b" -> "B"
      [] OTHER -> c

\* str.upper
upper(text) == [i \in 1..Len(text) |-> upper_char(text[i])]

\* str.lower, on the side of a request
lower(text) ==
    CASE text = "BUY" -> "buy"
      [] text = "SELL" -> "sell"
      [] text = "HOLD" -> "hold"
      [] OTHER -> text

RECURSIVE decimal(_)
decimal(n) == IF n < 10 THEN <<n>> ELSE Append(decimal(n \div 10), n % 10)

\* f"{n:04d}": the decimal digits, padded with zeros to four
format_04d(n) ==
    LET digits == decimal(n)
    IN  [i \in 1..(4 - Len(digits)) |-> 0] \o digits

\* f"MANUAL-{self._trade_counter:04d}"
manual_id(n) == <<"MANUAL-">> \o format_04d(n)

\* P&L on the quantity alone
position_pnl_per_unit(side, entry_price, exit_price, quantity) ==
    IF side = "buy" THEN exit_price - entry_price ELSE entry_price - exit_price

position_pnl(side, entry_price, exit_price, quantity) ==
    IF side = "buy"
    THEN (exit_price - entry_price) * quantity
    ELSE (entry_price - exit_price) * quantity

Manager(h, ts, counter, result, exception) ==
    [heap |-> h, trades |-> ts, counter |-> counter, result |-> result,
     raised |-> exception]

\* Trade(...) validates side: Literal["buy", "sell"]
\* Trade(trade_id=trade_id, timestamp=timestamp or datetime.now(), ...)
new_trade(trade_id, a, now) ==
    [trade_id |-> trade_id,
     timestamp |-> IF a.timestamp # None THEN a.timestamp[1] ELSE now,
     symbol |-> upper(a.symbol),
     side |-> lower(a.side),
     entry_price |-> a.entry_price,
     quantity |-> a.quantity,
     exit_price |-> a.exit_price,
     exit_timestamp |-> a.exit_timestamp,
     stop_loss |-> a.stop_loss,
     take_profit |-> a.take_profit,
     pnl |-> IF a.exit_price # None
             THEN Some(position_pnl(lower(a.side), a.entry_price,
                                    a.exit_price[1], a.quantity))
             ELSE None,
     notes |-> a.notes]

\* side: Literal["buy", "sell"] rejects the Trade
new_trade_raises(a) == lower(a.side) \notin {"buy", "sell"}

add_trade(m, a, now) ==
    LET counter == m.counter + 1
        new == new_trade(manual_id(counter), a, now)
    IN  IF new_trade_raises(a)
        THEN Manager(m.heap, m.trades, counter, None, TRUE)
        ELSE Manager(Append(m.heap, new), Append(m.trades, Len(m.heap) + 1),
                     counter, Some(Len(m.heap) + 1), FALSE)

\* the index in _trades of the first trade with this id, or 0
first_with_id(m, trade_id) ==
    LET hits == {i \in 1..Len(m.trades) : m.heap[m.trades[i]].trade_id = trade_id}
    IN  IF hits = {} THEN 0 ELSE CHOOSE i \in hits : \A j \in hits : i <= j

updated_trade(old, a) ==
    [old EXCEPT
        !.exit_price = IF a.exit_price # None THEN a.exit_price ELSE old.exit_price,
        !.exit_timestamp = IF a.exit_timestamp # None THEN a.exit_timestamp
                           ELSE old.exit_timestamp,
        !.stop_loss = IF a.stop_loss # None THEN a.stop_loss ELSE old.stop_loss,
        !.take_profit = IF a.take_profit # None THEN a.take_profit
                        ELSE old.take_profit,
        !.pnl = IF a.exit_price # None
                THEN Some(position_pnl(old.side, old.entry_price, a.exit_price[1],
                                       old.quantity))
                ELSE old.pnl,
        !.notes = IF a.notes # None THEN a.notes ELSE old.notes]

\* the fields assigned on the stored Trade object itself
update_trade_in_place(m, trade_id, a) ==
    LET i == first_with_id(m, trade_id)
    IN  IF i = 0 THEN Manager(m.heap, m.trades, m.counter, None, FALSE)
        ELSE Manager([m.heap EXCEPT ![m.trades[i]] = updated_trade(@, a)],
                     m.trades, m.counter, Some(m.trades[i]), FALSE)

update_trade(m, trade_id, a) ==
    LET i == first_with_id(m, trade_id)
    IN  IF i = 0 THEN Manager(m.heap, m.trades, m.counter, None, FALSE)
        ELSE Manager(Append(m.heap, updated_trade(m.heap[m.trades[i]], a)),
                     [m.trades EXCEPT ![i] = Len(m.heap) + 1],
                     m.counter, Some(Len(m.heap) + 1), FALSE)

delete_trade(m, trade_id) ==
    LET i == first_with_id(m, trade_id)
    IN  IF i = 0 THEN Manager(m.heap, m.trades, m.counter, FALSE, FALSE)
        ELSE Manager(m.heap,
                     SubSeq(m.trades, 1, i - 1) \o SubSeq(m.trades, i + 1, Len(m.trades)),
                     m.counter, TRUE, FALSE)

\* sorted(trades, key=lambda t: t.timestamp): stable
RECURSIVE sorted_by_timestamp(_, _)
sorted_by_timestamp(h, refs) ==
    IF refs = <<>> THEN <<>>
    ELSE LET rest == sorted_by_timestamp(h, Tail(refs))
             first == Head(refs)
             k == Cardinality({j \in 1..Len(rest) :
                                  h[rest[j]].timestamp < h[first].timestamp})
         IN  SubSeq(rest, 1, k) \o <<first>> \o SubSeq(rest, k + 1, Len(rest))

matching_trades(m, symbol, start_date, end_date) ==
    LET Keep(r) ==
            /\ symbol # None /\ symbol # Some(<<>>)
                  => m.heap[r].symbol = upper(symbol[1])
            /\ start_date # None => m.heap[r].timestamp >= start_date[1]
            /\ end_date # None => m.heap[r].timestamp <= end_date[1]
    IN  sorted_by_timestamp(m.heap, SelectSeq(m.trades, Keep))

\* self._trades.sort(...) before filtering, instead of sorting a copy
get_trades_sorting_in_place(m, symbol, start_date, end_date) ==
    Manager(m.heap, sorted_by_timestamp(m.heap, m.trades), m.counter,
            matching_trades(m, symbol, start_date, end_date), FALSE)

get_trades(m, symbol, start_date, end_date) ==
    Manager(m.heap, m.trades, m.counter,
            matching_trades(m, symbol, start_date, end_date), FALSE)

\* the counter reset for a symbol as well
clear_trades_resetting(m, symbol) ==
    IF symbol # None /\ symbol # Some(<<>>)
    THEN Manager(m.heap,
                 SelectSeq(m.trades, LAMBDA r : m.heap[r].symbol # upper(symbol[1])),
                 0, None, FALSE)
    ELSE Manager(m.heap, <<>>, 0, None, FALSE)

clear_trades(m, symbol) ==
    IF symbol # None /\ symbol # Some(<<>>)
    THEN Manager(m.heap,
                 SelectSeq(m.trades, LAMBDA r : m.heap[r].symbol # upper(symbol[1])),
                 m.counter, None, FALSE)
    ELSE Manager(m.heap, <<>>, 0, None, FALSE)

----------------------------------------------------------------------------
(* Calls of the ManualTradeManager, in any order *)

MaxObjects == 3

AB == <<"A", "B">>

AddArgs(symbol, side, timestamp, exit_price, exit_timestamp) ==
    [symbol |-> symbol, side |-> side, entry_price |-> 100, quantity |-> 2,
     timestamp |-> timestamp, exit_price |-> exit_price,
     exit_timestamp |-> exit_timestamp, stop_loss |-> None,
     take_profit |-> None, notes |-> None]

\* an open buy entered in lower case and timed by the clock, a closed sell
\* of another symbol, and a side Trade rejects
AddRequests ==
    {AddArgs(<<"a", "b">>, "buy", None, None, None),
     AddArgs(<<"B">>, "SELL", Some(1), Some(110), Some(2)),
     AddArgs(AB, "HOLD", None, None, None)}

UpdateArgs(exit_price, exit_timestamp, stop_loss, take_profit, notes) ==
    [exit_price |-> exit_price, exit_timestamp |-> exit_timestamp,
     stop_loss |-> stop_loss, take_profit |-> take_profit, notes |-> notes]

UpdateRequests ==
    {UpdateArgs(Some(90), Some(3), None, None, None),
     UpdateArgs(None, None, Some(95), Some(120), Some("plan"))}

\* datetime.now()
Clock == {3}

TradeIds == {manual_id(n) : n \in 1..MaxObjects}

SymbolFilters == {None, Some(<<"a", "b">>)}

DateFilters == {None, Some(2)}

CurrentManager == [heap |-> heap, trades |-> _trades, counter |-> _trade_counter]

AllUnset ==
    /\ trade = NoTrade
    /\ context = NoContext
    /\ trades = <<>>
    /\ candles = <<>>
    /\ levels = <<>>
    /\ num_levels = DefaultNumLevels
    /\ op = "ready"
    /\ ResultsUnset

\* ManualTradeManager()
InitManager == AllUnset

AddTrade ==
    /\ Len(heap) < MaxObjects
    /\ _trade_counter < MaxObjects
    /\ \E a \in AddRequests, now \in Clock :
          LET out == add_trade(CurrentManager, a, now)
          IN  /\ request' = [args |-> a, now |-> now]
              /\ heap' = out.heap
              /\ _trades' = out.trades
              /\ _trade_counter' = out.counter
              /\ returned' = out.result
              /\ raised' = out.raised
    /\ op' = "add_trade"
    /\ UNCHANGED <<marketVars, evalVars, batchVars, reviewVars, webVars>>

UpdateTrade ==
    /\ Len(heap) < MaxObjects
    /\ \E id \in TradeIds, a \in UpdateRequests :
          LET out == update_trade(CurrentManager, id, a)
          IN  /\ request' = [trade_id |-> id, args |-> a]
              /\ heap' = out.heap
              /\ _trades' = out.trades
              /\ _trade_counter' = out.counter
              /\ returned' = out.result
              /\ raised' = out.raised
    /\ op' = "update_trade"
    /\ UNCHANGED <<marketVars, evalVars, batchVars, reviewVars, webVars>>

DeleteTrade ==
    /\ \E id \in TradeIds :
          LET out == delete_trade(CurrentManager, id)
          IN  /\ request' = [trade_id |-> id]
              /\ heap' = out.heap
              /\ _trades' = out.trades
              /\ _trade_counter' = out.counter
              /\ returned' = out.result
              /\ raised' = out.raised
    /\ op' = "delete_trade"
    /\ UNCHANGED <<marketVars, evalVars, batchVars, reviewVars, webVars>>

\* the caller keeps the list returned, as the list it hands on
GetTrades ==
    /\ \E symbol \in SymbolFilters, start_date \in DateFilters,
          end_date \in DateFilters :
          LET out == get_trades(CurrentManager, symbol, start_date, end_date)
          IN  /\ request' = [symbol |-> symbol, start_date |-> start_date,
                             end_date |-> end_date]
              /\ heap' = out.heap
              /\ _trades' = out.trades
              /\ _trade_counter' = out.counter
              /\ returned' = out.result
              /\ trades' = [i \in 1..Len(out.result) |-> out.heap[out.result[i]]]
              /\ raised' = out.raised
    /\ op' = "get_trades"
    /\ UNCHANGED <<marketVars, evalVars, evaluations, metrics, additional,
                   reviewVars, webVars>>

ClearTrades ==
    /\ \E symbol \in SymbolFilters :
          LET out == clear_trades(CurrentManager, symbol)
          IN  /\ request' = [symbol |-> symbol]
              /\ heap' = out.heap
              /\ _trades' = out.trades
              /\ _trade_counter' = out.counter
              /\ returned' = out.result
              /\ raised' = out.raised
    /\ op' = "clear_trades"
    /\ UNCHANGED <<marketVars, evalVars, batchVars, reviewVars, webVars>>

NextManager ==
    \/ AddTrade
    \/ UpdateTrade
    \/ DeleteTrade
    \/ ClearTrades

SpecManager == InitManager /\ [][NextManager]_vars

----------------------------------------------------------------------------
(* The stored trades read through get_trades and handed to the evaluator
   and the metrics *)

InitStored ==
    /\ context \in BatchContexts
    /\ trade = NoTrade
    /\ trades = <<>>
    /\ candles = <<>>
    /\ levels = <<>>
    /\ num_levels = DefaultNumLevels
    /\ op = "ready"
    /\ ResultsUnset

\* the trades are added first, then read once and reviewed
NextStored ==
    \/ op \in {"ready", "add_trade"} /\ AddTrade
    \/ op \in {"ready", "add_trade"} /\ GetTrades
    \/ EvaluateTrades
    \/ EvaluateTradeAgain
    \/ CalculatePerformanceMetrics
    \/ CalculateAdditionalMetrics

SpecStored == InitStored /\ [][NextStored]_vars

----------------------------------------------------------------------------
(* TradeReviewSystem.analyze_period, from the filtered candles and trades  *)
(* on.  The commentary comes from the language model and is left out of    *)
(* the review.                                                              *)

AnalyzeMarketContext ==
    /\ op = "ready"
    /\ op' = "analyze_market_context"
    /\ raised' = find_support_resistance_raises(candles, DefaultNumLevels)
    /\ IF find_support_resistance_raises(candles, DefaultNumLevels)
       THEN UNCHANGED returned_context
       ELSE returned_context' = Some(analyze_market_context(candles))
    /\ UNCHANGED <<managerVars, marketVars, evalVars, batchVars, review, webVars>>

analyze_period_raises(market_data, ts) ==
    \/ market_data = <<>>
    \/ ts = <<>>
    \/ find_support_resistance_raises(market_data, DefaultNumLevels)

analyze_period(market_data, ts) ==
    LET ctx == analyze_market_context(market_data)
        evals == evaluate_trades(ts, ctx)
    IN  [market_context |-> ctx,
         trades |-> ts,
         evaluations |-> evals,
         overall_performance |-> calculate_performance_metrics(ts, evals)]

AnalyzePeriod ==
    /\ op = "ready"
    /\ op' = "analyze_period"
    /\ raised' = analyze_period_raises(candles, trades)
    /\ IF analyze_period_raises(candles, trades)
       THEN UNCHANGED review
       ELSE review' = Some(analyze_period(candles, trades))
    /\ UNCHANGED <<managerVars, marketVars, evalVars, batchVars, returned_context,
                   webVars>>

NextMarket ==
    \/ CalculateTrend
    \/ CalculateVolatility
    \/ FindSupportResistance
    \/ ClusterLevels
    \/ AnalyzeMarketContext
    \/ AnalyzePeriod

SpecMarket == InitMarket /\ [][NextMarket]_vars

SpecMarketAny == InitMarketAny /\ [][NextMarket]_vars

----------------------------------------------------------------------------
(* webapp/app.py: the live analysis and the manual-trade routes, one request
   at a time.  The AI commentary of a review is left out. *)

\* f"live_{symbol}_{start_date}_{end_date}_{interval}", as characters
cache_key(symbol, start_date, end_date, interval) ==
    <<"l", "i", "v", "e", "_">> \o symbol
        \o <<"_", ToString(start_date), "_", ToString(end_date), "_">>
        \o interval

\* the str test  sub in k
contains(k, sub) ==
    \E i \in 0..(Len(k) - Len(sub)) : SubSeq(k, i + 1, i + Len(sub)) = sub

restrict(cache, keys) == [k \in keys |-> cache[k]]

\* keys_to_remove = [k for k in _analysis_cache.keys() if trade.symbol in k]
without_symbol(cache, symbol) ==
    restrict(cache, {k \in DOMAIN cache : ~contains(k, symbol)})

\* float(data[f]) if data.get(f) else None
optional_float(v) == IF v = None \/ v = Some(0) THEN None ELSE v

objects(h, refs) == [i \in 1..Len(refs) |-> h[refs[i]]]

NoTradesMetrics ==
    [total_trades |-> 0, closed_trades |-> 0, open_trades |-> 0,
     winning_trades |-> 0, losing_trades |-> 0, win_rate |-> Zero,
     total_pnl |-> 0, avg_pnl |-> Zero, trades_with_trend |-> 0,
     trades_against_trend |-> 0, high_discipline_trades |-> 0,
     good_entry_trades |-> 0]

\* the entry that run_analysis_with_live_data builds on a cache miss
live_analysis(symbol, start_date, end_date, market_data, ts) ==
    LET ctx == analyze_market_context(market_data)
        evals == IF ts # <<>> THEN evaluate_trades(ts, ctx) ELSE <<>>
    IN  [review |->
             [period_start |-> start_date,
              period_end |-> end_date,
              symbol |-> symbol,
              market_context |-> ctx,
              trades |-> ts,
              evaluations |-> evals,
              overall_performance |->
                  IF ts # <<>> THEN calculate_performance_metrics(ts, evals)
                  ELSE NoTradesMetrics],
         market_data |-> market_data]

MaxWebObjects == 2

LiveSymbols == {<<"a", "b">>, <<"A", "B">>}

LiveWindows == {<<0, 4>>}

Daily == <<"1", "d">>

\* what LiveDataService.fetch_market_data may answer
LiveMarketData == {<<>>, <<CandleAt(100), CandleAt(102), CandleAt(101)>>}

AnalyzeLive ==
    /\ \E symbol \in LiveSymbols, window \in LiveWindows,
          market_data \in LiveMarketData :
          LET key == cache_key(symbol, window[1], window[2], Daily)
              ts == objects(heap, get_trades(CurrentManager, Some(symbol),
                                             Some(window[1]),
                                             Some(window[2])).result)
          IN  /\ request' = [symbol |-> symbol, start_date |-> window[1],
                             end_date |-> window[2], interval |-> Daily]
              /\ IF key \in DOMAIN _analysis_cache
                 THEN /\ raised' = FALSE
                      /\ UNCHANGED _analysis_cache
                 ELSE IF market_data = <<>>
                 THEN /\ raised' = TRUE
                      /\ UNCHANGED _analysis_cache
                 ELSE /\ raised' = FALSE
                      /\ _analysis_cache' =
                             [k \in DOMAIN _analysis_cache \cup {key} |->
                                 IF k = key
                                 THEN live_analysis(symbol, window[1],
                                                    window[2], market_data, ts)
                                 ELSE _analysis_cache[k]]
              /\ returned' = IF raised' THEN None ELSE Some(key)
    /\ op' = "analyze_live"
    /\ UNCHANGED <<marketVars, evalVars, batchVars, reviewVars, threadVars,
                   heap, _trades, _trade_counter>>

from_json(a) ==
    [a EXCEPT !.exit_price = optional_float(@),
              !.stop_loss = optional_float(@),
              !.take_profit = optional_float(@)]

AddManualTrade ==
    /\ Len(heap) < MaxWebObjects
    /\ _trade_counter < MaxWebObjects
    /\ \E a \in AddRequests, now \in Clock :
          LET out == add_trade(CurrentManager, from_json(a), now)
          IN  /\ request' = [args |-> a, now |-> now]
              /\ heap' = out.heap
              /\ _trades' = out.trades
              /\ _trade_counter' = out.counter
              /\ returned' = out.result
              /\ raised' = out.raised
              /\ _analysis_cache' =
                     IF out.raised THEN _analysis_cache
                     ELSE without_symbol(_analysis_cache,
                                         out.heap[out.result[1]].symbol)
    /\ op' = "add_manual_trade"
    /\ UNCHANGED <<marketVars, evalVars, batchVars, reviewVars, threadVars>>

UpdateManualTrade ==
    /\ Len(heap) < MaxWebObjects
    /\ \E id \in TradeIds, a \in UpdateRequests :
          LET out == update_trade(CurrentManager, id, from_json(a))
          IN  /\ request' = [trade_id |-> id, args |-> a]
              /\ heap' = out.heap
              /\ _trades' = out.trades
              /\ _trade_counter' = out.counter
              /\ returned' = out.result
              /\ raised' = out.raised
              /\ _analysis_cache' =
                     IF out.result = None THEN _analysis_cache
                     ELSE without_symbol(_analysis_cache,
                                         out.heap[out.result[1]].symbol)
    /\ op' = "update_manual_trade"
    /\ UNCHANGED <<marketVars, evalVars, batchVars, reviewVars, threadVars>>

DeleteManualTrade ==
    /\ \E id \in TradeIds :
          LET out == delete_trade(CurrentManager, id)
          IN  /\ request' = [trade_id |-> id]
              /\ heap' = out.heap
              /\ _trades' = out.trades
              /\ _trade_counter' = out.counter
              /\ returned' = out.result
              /\ raised' = out.raised
              /\ _analysis_cache' =
                     IF out.result THEN <<>> ELSE _analysis_cache
    /\ op' = "delete_manual_trade"
    /\ UNCHANGED <<marketVars, evalVars, batchVars, reviewVars, threadVars>>

ClearManualTrades ==
    /\ \E symbol \in SymbolFilters :
          LET out == clear_trades(CurrentManager, symbol)
          IN  /\ request' = [symbol |-> symbol]
              /\ heap' = out.heap
              /\ _trades' = out.trades
              /\ _trade_counter' = out.counter
              /\ returned' = out.result
              /\ raised' = out.raised
    /\ _analysis_cache' = <<>>
    /\ op' = "clear_manual_trades"
    /\ UNCHANGED <<marketVars, evalVars, batchVars, reviewVars, threadVars>>

NextWeb ==
    \/ AnalyzeLive
    \/ AddManualTrade
    \/ UpdateManualTrade
    \/ DeleteManualTrade
    \/ ClearManualTrades

SpecWeb == InitManager /\ [][NextWeb]_vars

----------------------------------------------------------------------------
(* webapp/app.py served by app.run: each request runs in a thread of its
   own, and the threads share _trade_manager and _analysis_cache.  Two
   threads run add_manual_trade and one runs analyze_live; a step is what a
   thread does between two points where another thread may run. *)

\* what the steps of a request thread leave alone
sequentialVars == <<marketVars, evalVars, batchVars, reviewVars, op, raised,
                    request, returned>>

Goto(t, label) == pc' = [pc EXCEPT ![t] = label]

\* self._trade_counter += 1
AddIncrement(t) ==
    /\ pc[t] = "idle"
    /\ \E a \in AddRequests, now \in Clock :
          locals' = [locals EXCEPT ![t] = [args |-> from_json(a), now |-> now]]
    /\ _trade_counter' = _trade_counter + 1
    /\ Goto(t, "format")
    /\ UNCHANGED <<sequentialVars, heap, _trades, _analysis_cache>>

\* trade_id = f"MANUAL-{self._trade_counter:04d}"
AddFormatId(t) ==
    /\ pc[t] = "format"
    /\ locals' = [locals EXCEPT ![t] =
                     [args |-> @.args, now |-> @.now,
                      trade_id |-> manual_id(_trade_counter)]]
    /\ Goto(t, "append")
    /\ UNCHANGED <<sequentialVars, heap, _trades, _trade_counter, _analysis_cache>>

\* trade = Trade(...); self._trades.append(trade)
AddAppend(t) ==
    /\ pc[t] = "append"
    /\ IF new_trade_raises(locals[t].args)
       THEN /\ Goto(t, "raised")
            /\ UNCHANGED <<sequentialVars, heap, _trades>>
       ELSE /\ heap' = Append(heap, new_trade(locals[t].trade_id,
                                              locals[t].args, locals[t].now))
            /\ _trades' = Append(_trades, Len(heap) + 1)
            /\ Goto(t, "invalidate")
    /\ UNCHANGED <<sequentialVars, locals, _trade_counter, _analysis_cache>>

\* the cache keys of trade.symbol deleted
AddInvalidate(t) ==
    /\ pc[t] = "invalidate"
    /\ _analysis_cache' = without_symbol(_analysis_cache,
                                         upper(locals[t].args.symbol))
    /\ Goto(t, "done")
    /\ UNCHANGED <<sequentialVars, locals, heap, _trades, _trade_counter>>

\* if cache_key not in _analysis_cache: market_data = fetch_market_data(...)
AnalysisCheck(t) ==
    /\ pc[t] = "idle"
    /\ \E window \in LiveWindows, market_data \in LiveMarketData :
          LET key == cache_key(AB, window[1], window[2], Daily)
          IN  /\ locals' = [locals EXCEPT ![t] =
                               [symbol |-> AB, start_date |-> window[1],
                                end_date |-> window[2], key |-> key,
                                market_data |-> market_data]]
              /\ Goto(t, IF key \in DOMAIN _analysis_cache THEN "done"
                         ELSE IF market_data = <<>> THEN "raised"
                         ELSE "read")
    /\ UNCHANGED <<sequentialVars, heap, _trades, _trade_counter, _analysis_cache>>

\* trades = _trade_manager.get_trades(symbol, start_date, end_date)
AnalysisRead(t) ==
    /\ pc[t] = "read"
    /\ locals' = [locals EXCEPT ![t] =
                     [key |-> @.key,
                      entry |-> live_analysis(
                          @.symbol, @.start_date, @.end_date, @.market_data,
                          objects(heap,
                                  get_trades(CurrentManager, Some(@.symbol),
                                             Some(@.start_date),
                                             Some(@.end_date)).result))]]
    /\ Goto(t, "store")
    /\ UNCHANGED <<sequentialVars, heap, _trades, _trade_counter, _analysis_cache>>

\* _analysis_cache[cache_key] = {'review': review, 'market_data': ...}
AnalysisStore(t) ==
    /\ pc[t] = "store"
    /\ _analysis_cache' =
           [k \in DOMAIN _analysis_cache \cup {locals[t].key} |->
               IF k = locals[t].key THEN locals[t].entry
               ELSE _analysis_cache[k]]
    /\ Goto(t, "done")
    /\ UNCHANGED <<sequentialVars, locals, heap, _trades, _trade_counter>>

NextThreads ==
    \/ \E t \in AddThreads : AddIncrement(t)
    \/ \E t \in AddThreads : AddFormatId(t)
    \/ \E t \in AddThreads : AddAppend(t)
    \/ \E t \in AddThreads : AddInvalidate(t)
    \/ AnalysisCheck("analysis")
    \/ AnalysisRead("analysis")
    \/ AnalysisStore("analysis")

SpecThreads == InitManager /\ [][NextThreads]_vars

----------------------------------------------------------------------------
(* Properties of MarketAnalyzer, checked under SpecMarket *)

Closes == [i \in 1..Len(candles) |-> candles[i].close]

StrictlyIncreasingCloses ==
    \A i \in 1..(Len(candles) - 1) : candles[i].close < candles[i + 1].close

AllClosesEqual ==
    \A i, j \in 1..Len(candles) : candles[i].close = candles[j].close

\* Least squares in integers: slope = SlopeNum / SlopeDen with SlopeDen > 0
\* for two or more candles, and mean(close) = CloseSum / Len(candles).
CloseSum == SumInt(Closes)

SlopeNum ==
    LET n == Len(candles)
    IN  n * SumInt([i \in 1..n |-> (i - 1) * candles[i].close])
          - SumInt([i \in 1..n |-> i - 1]) * CloseSum

SlopeDen ==
    LET n == Len(candles)
    IN  n * SumInt([i \in 1..n |-> (i - 1) * (i - 1)])
          - SumInt([i \in 1..n |-> i - 1]) * SumInt([i \in 1..n |-> i - 1])

\* C1: for every window of at least 2 candles whose closes are strictly
\* increasing, calculate_trend returns direction bullish with strength
\* exactly 1.0.
C1_IncreasingIsPerfectBullish ==
    (op = "calculate_trend" /\ Len(candles) >= 2 /\ StrictlyIncreasingCloses)
        => (trend = "bullish" /\ strength = One)

\* C2: for every window of at least 2 candles with positive closes, the
\* direction is bullish iff slope / mean(close) > 0.001, bearish iff
\* slope / mean(close) < -0.001 and neutral otherwise, both comparisons strict.
C2_DirectionThresholds ==
    (op = "calculate_trend" /\ Len(candles) >= 2
        /\ \A i \in 1..Len(candles) : candles[i].close > 0)
        => /\ trend \in {"bullish", "bearish", "neutral"}
           /\ trend = "bullish"
                <=> 1000 * Len(candles) * SlopeNum > SlopeDen * CloseSum
           /\ trend = "bearish"
                <=> 1000 * Len(candles) * SlopeNum < 0 - SlopeDen * CloseSum

C2_Witness ==
    /\ op = "calculate_trend"
    /\ Len(candles) >= 2
    /\ \A i \in 1..Len(candles) : candles[i].close > 0
    /\ 1000 * Len(candles) * SlopeNum = SlopeDen * CloseSum
    /\ trend = "neutral"

\* C3: for every candle window the strength returned by calculate_trend lies
\* in [0, 1], and whenever all closes are equal the result is (neutral, 0).
C3_StrengthInUnitInterval ==
    op = "calculate_trend"
        => /\ RLe(Zero, strength)
           /\ RLe(strength, One)
           /\ AllClosesEqual => (trend = "neutral" /\ strength = Zero)

C3_Witness ==
    /\ op = "calculate_trend"
    /\ Len(candles) >= 2
    /\ AllClosesEqual
    /\ candles[1].close <= 0

\* C4: for every candle window of length 0 or 1, calculate_trend returns
\* (neutral, 0.0) and calculate_volatility returns 0.0, without raising.
C4_ShortWindowFallbacks ==
    Len(candles) < 2
        => /\ op = "calculate_trend"
                => (trend = "neutral" /\ strength = Zero /\ ~raised)
           /\ op = "calculate_volatility" => (volatility = Zero /\ ~raised)

C4_Witness ==
    /\ op = "calculate_volatility"
    /\ Len(candles) = 1
    /\ candles[1].high # candles[1].low

MaxOfSet(S) == CHOOSE m \in S : \A y \in S : y <= m

TrueRangeOf(i) ==
    MaxOfSet({candles[i].high - candles[i].low,
              Abs(candles[i].high - candles[i - 1].close),
              Abs(candles[i].low - candles[i - 1].close)})

\* C5: for every window of n >= 2 candles, calculate_volatility is the
\* arithmetic mean over candles 2..n of max(high - low, |high - previous
\* close|, |low - previous close|); it is never negative.
C5_VolatilityIsMeanTrueRange ==
    (op = "calculate_volatility" /\ Len(candles) >= 2)
        => /\ volatility[1] * (Len(candles) - 1)
                = volatility[2] * SumInt([k \in 1..(Len(candles) - 1) |->
                                             TrueRangeOf(k + 1)])
           /\ volatility[2] > 0
           /\ volatility[1] >= 0

C5_Witness ==
    /\ op = "calculate_volatility"
    /\ Len(candles) >= 3
    /\ \E i \in 2..Len(candles) :
          TrueRangeOf(i) > candles[i].high - candles[i].low
    /\ \E i \in 2..Len(candles) :
          TrueRangeOf(i) = candles[i].high - candles[i].low

\* The k-th smallest element of a finite set of integers
KthOf(S, k) == CHOOSE i \in S : Cardinality({j \in S : j < i}) = k - 1

SwingLowIndices ==
    {i \in 2..(Len(candles) - 1) :
        candles[i].low < candles[i - 1].low /\ candles[i].low < candles[i + 1].low}

SwingHighIndices ==
    {i \in 2..(Len(candles) - 1) :
        candles[i].high > candles[i - 1].high /\ candles[i].high > candles[i + 1].high}

\* C6: find_support_resistance collects as swing lows exactly the lows of the
\* interior candles strictly below both neighbours' lows, and as swing highs
\* exactly the highs of the interior candles strictly above both neighbours'
\* highs; fewer than 3 candles yield two empty lists.
C6_SwingPoints ==
    op = "find_support_resistance"
        => /\ Len(found_lows) = Cardinality(SwingLowIndices)
           /\ \A k \in 1..Len(found_lows) :
                 found_lows[k] = candles[KthOf(SwingLowIndices, k)].low
           /\ Len(found_highs) = Cardinality(SwingHighIndices)
           /\ \A k \in 1..Len(found_highs) :
                 found_highs[k] = candles[KthOf(SwingHighIndices, k)].high
           /\ Len(candles) < 3
                 => (support_levels = <<>> /\ resistance_levels = <<>>)

C6_Witness ==
    /\ op = "find_support_resistance"
    /\ Len(found_lows) = 1
    /\ \E i \in 2..(Len(candles) - 1) :
          /\ candles[i].low = candles[i - 1].low
          /\ candles[i].low < candles[i + 1].low
    /\ \E i \in 2..(Len(candles) - 1) :
          /\ candles[i].high = candles[i + 1].high
          /\ candles[i].high > candles[i - 1].high

\* The runs of an ascending list s of positive levels: a run starts at the
\* first element and wherever an element is 1% or more of its predecessor
\* away from that predecessor.
RunStarts(s) ==
    {i \in 1..Len(s) : i = 1 \/ ~(100 * Abs(s[i] - s[i - 1]) < s[i - 1])}

NumRuns(s) == Cardinality(RunStarts(s))

RunFirst(s, k) == KthOf(RunStarts(s), k)

RunLast(s, k) == IF k = NumRuns(s) THEN Len(s) ELSE KthOf(RunStarts(s), k + 1) - 1

\* The mean of the k-th run as an unreduced fraction <<sum, size>>
RunMean(s, k) ==
    <<SumInt(SubSeq(s, RunFirst(s, k), RunLast(s, k))),
      RunLast(s, k) - RunFirst(s, k) + 1>>

REq(p, q) == p[1] * q[2] = q[1] * p[2]

MinOf(a, b) == IF a < b THEN a ELSE b

CountIn(seq, v) == Cardinality({i \in 1..Len(seq) : seq[i] = v})

\* out is the ascending rearrangement of the integer list in, unaveraged
IsSortedCopy(out, in) ==
    /\ Len(out) = Len(in)
    /\ \A i \in 1..Len(out) : out[i][2] = 1
    /\ \A i \in 1..(Len(out) - 1) : out[i][1] <= out[i + 1][1]
    /\ \A i \in 1..Len(in) :
          CountIn([k \in 1..Len(out) |-> out[k][1]], in[i]) = CountIn(in, in[i])

\* C7: _cluster_levels returns at most num_clusters swing points sorted and
\* unaveraged; otherwise it walks the sorted list once, a value joining the
\* current cluster iff it is less than 1% of the cluster's last-added member
\* away from that member, and each cluster is replaced by its mean.
C7_GreedyLastMemberClustering ==
    (op = "cluster_levels" /\ ~raised)
        => IF Len(levels) <= num_levels
           THEN IsSortedCopy(clustered, levels)
           ELSE /\ Len(clustered) = MinOf(num_levels, NumRuns(sorted(levels)))
                /\ \A k \in 1..Len(clustered) :
                      /\ clustered[k][2] > 0
                      /\ REq(clustered[k], RunMean(sorted(levels), k))

C7_Witness ==
    /\ op = "cluster_levels"
    /\ levels = <<1010, 1000, 1005>>
    /\ num_levels = 2
    /\ clustered = <<<<1005, 1>>>>

Ascending(res) == \A i, j \in 1..Len(res) : i < j => RLe(res[i], res[j])

\* res holds at most num_levels ascending entries, and when the swing points
\* found form more than num_levels clusters, res holds num_levels of the
\* cluster means and every cluster mean left out is at least as large as each.
LowestClusters(res, found) ==
    LET s == sorted(found)
        means == {RunMean(s, k) : k \in 1..NumRuns(s)}
    IN  /\ Ascending(res)
        /\ Len(res) <= num_levels
        /\ (Len(found) > num_levels /\ NumRuns(s) > num_levels)
              => /\ Len(res) = num_levels
                 /\ \A k \in 1..Len(res) : \E m \in means : REq(res[k], m)
                 /\ \A i, j \in 1..Len(res) : i < j => ~REq(res[i], res[j])
                 /\ \A m \in means :
                       (\A k \in 1..Len(res) : ~REq(res[k], m))
                           => \A k \in 1..Len(res) : RLe(res[k], m)

----------------------------------------------------------------------------
(* Properties of TradeEvaluator, checked under SpecEval *)

\* entry_price is less than 1% of the level lvl = <<n, d>> (n, d > 0) away
\* from it
WithinOnePercentOf(entry_price, lvl) ==
    100 * Abs(entry_price * lvl[2] - lvl[1]) < lvl[1]

EntryScore ==
    LET agrees == \/ trade.side = "buy" /\ context.trend = "bullish"
                  \/ trade.side = "sell" /\ context.trend = "bearish"
        own == IF trade.side = "buy" THEN context.support_levels
               ELSE context.resistance_levels
    IN  (IF agrees THEN 2 ELSE IF context.trend = "neutral" THEN 1 ELSE 0 - 1)
        + (IF \E i \in 1..Len(own) : WithinOnePercentOf(trade.entry_price, own[i])
           THEN 2 ELSE 0)

\* C9: evaluate_entry_quality scores +2 for a side that agrees with a
\* non-neutral trend, +1 for a neutral trend, -1 for a side that opposes the
\* trend, plus +2 if the entry price is within 1% of a support level (buy) or
\* of a resistance level (sell); good iff score >= 3, acceptable iff score is
\* 1 or 2, poor otherwise.
C9_EntryQualityTiers ==
    op = "evaluate_entry_quality"
        => /\ entry_quality = "good" <=> EntryScore >= 3
           /\ entry_quality = "acceptable" <=> EntryScore \in {1, 2}
           /\ entry_quality = "poor" <=> EntryScore < 1

C9_Witness ==
    /\ op = "evaluate_entry_quality"
    /\ trade.side = "buy"
    /\ trade.entry_price = 990
    /\ context.trend = "bullish"
    /\ context.support_levels = <<<<900, 1>>, <<1000, 1>>>>
    /\ context.resistance_levels = <<<<1000, 1>>>>
    /\ entry_quality = "acceptable"

\* 100 times the trade's return relative to entry, times entry_price
SignedGainTimes100 ==
    IF trade.side = "buy"
    THEN 100 * (trade.exit_price[1] - trade.entry_price)
    ELSE 100 * (trade.entry_price - trade.exit_price[1])

ExitScore ==
    (IF SignedGainTimes100 > 2 * trade.entry_price THEN 2
     ELSE IF SignedGainTimes100 > 0 THEN 1
     ELSE IF SignedGainTimes100 < 0 - 2 * trade.entry_price THEN 0 - 2
     ELSE 0 - 1)
    + (IF trade.stop_loss = <<>> THEN 0 ELSE 1)
    + (IF trade.take_profit = <<>> THEN 0 ELSE 1)

\* C10: evaluate_exit_quality returns nothing iff the trade has no exit
\* price; otherwise the score is +2 for a return above 2%, +1 for a return in
\* (0, 2%], -2 below -2%, -1 in [-2%, 0], plus +1 for a stop-loss and +1 for
\* a take-profit, and the result is good iff score >= 3, acceptable iff
\* 0 <= score <= 2, poor otherwise.
C10_ExitQualityTiers ==
    op = "evaluate_exit_quality"
        => /\ exit_quality = <<>> <=> trade.exit_price = <<>>
           /\ trade.exit_price # <<>>
                 => /\ exit_quality = <<"good">> <=> ExitScore >= 3
                    /\ exit_quality = <<"acceptable">> <=> ExitScore \in 0..2
                    /\ exit_quality = <<"poor">> <=> ExitScore < 0

C10_Witness ==
    /\ op = "evaluate_exit_quality"
    /\ trade.side = "sell"
    /\ trade.entry_price = 1000
    /\ trade.exit_price = <<980>>
    /\ trade.stop_loss # <<>>
    /\ trade.take_profit = <<>>
    /\ exit_quality = <<"acceptable">>

----------------------------------------------------------------------------
(* Risk-reward, discipline and the observation list *)

Risk == Abs(trade.entry_price - trade.stop_loss[1])

Reward == Abs(trade.take_profit[1] - trade.entry_price)

ExampleBuy ==
    /\ trade.side = "buy"
    /\ trade.entry_price = 100
    /\ trade.stop_loss = <<90>>
    /\ trade.take_profit = <<120>>

\* C11: calculate_risk_reward returns nothing if the stop-loss or the
\* take-profit is absent or if |entry - stop| = 0, and otherwise returns
\* |target - entry| / |entry - stop|, without raising; for a buy with entry
\* 100, stop 90 and target 120 it returns exactly 2.
C11_RiskRewardRatio ==
    op = "calculate_risk_reward"
        => /\ ~raised
           /\ IF trade.stop_loss = <<>> \/ trade.take_profit = <<>>
              THEN risk_reward = <<>>
              ELSE IF Risk = 0
              THEN risk_reward = <<>>
              ELSE /\ Len(risk_reward) = 1
                   /\ risk_reward[1][2] > 0
                   /\ risk_reward[1][1] * Risk = Reward * risk_reward[1][2]
           /\ ExampleBuy => risk_reward = << <<2, 1>> >>

C11_Witness ==
    /\ op = "calculate_risk_reward"
    /\ ExampleBuy
    /\ risk_reward = << <<2, 1>> >>

\* C12: in every TradeEvaluation produced by evaluate_trade the risk-reward
\* ratio is either absent or strictly greater than 0.
C12_RatioPositiveWhenPresent ==
    op = "evaluate_trade"
        => \/ evaluation[1].risk_reward_ratio = <<>>
           \/ evaluation[1].risk_reward_ratio[1][1] > 0

DisciplineScore ==
    (IF trade.stop_loss # <<>> THEN 2 ELSE 0)
    + (IF trade.take_profit # <<>> THEN 2 ELSE 0)
    + (IF trade.notes # <<>> /\ trade.notes # <<"">> THEN 1 ELSE 0)
    + (IF trade.stop_loss = <<>> \/ trade.take_profit = <<>> \/ Risk = 0 THEN 0
       ELSE IF Reward >= 2 * Risk THEN 2
       ELSE IF Reward >= Risk THEN 1
       ELSE 0)

\* C13: evaluate_execution_discipline scores 2 for a stop-loss, 2 for a
\* take-profit, 1 for a non-empty note, 2 for a risk-reward of at least 2 or
\* 1 for a risk-reward in [1, 2), and returns high iff score >= 5, medium iff
\* the score is 3 or 4, low otherwise; a trade with stop-loss, take-profit,
\* a note and a risk-reward of exactly 2 scores 7 and is high.
C13_DisciplineTiers ==
    op = "evaluate_execution_discipline"
        => /\ discipline = "high" <=> DisciplineScore >= 5
           /\ discipline = "medium" <=> DisciplineScore \in 3..4
           /\ discipline = "low" <=> DisciplineScore < 3
           /\ ExampleBuy /\ trade.notes = <<"plan">>
                 => DisciplineScore = 7 /\ discipline = "high"

C13_Witness ==
    /\ op = "evaluate_execution_discipline"
    /\ trade.stop_loss # <<>>
    /\ trade.take_profit = <<>>
    /\ trade.notes = <<"">>
    /\ discipline = "low"

Observations == evaluation[1].key_observations

Texts(group) == {i \in 1..Len(Observations) : Observations[i].text \in group}

Rank(text) ==
    IF text \in {EntryGoodText, EntryPoorText} THEN 1
    ELSE IF text = CounterTrendText THEN 2
    ELSE IF text \in {FavorableText, ImproveText, MissingText} THEN 3
    ELSE 4

RatioAtLeastTwo(rr) == rr # <<>> /\ rr[1][1] >= 2 * rr[1][2]

\* C14: the observation list of evaluate_trade holds, in this order, an entry
\* remark iff the entry quality is good or poor, a counter-trend remark iff
\* the trade is not trend-aligned, exactly one risk-reward remark (favorable
\* iff the ratio is at least 2, could-be-improved iff it is present and below
\* 2, missing-risk-management iff it is absent), and a discipline remark iff
\* discipline is low; so it has between 1 and 4 observations.
C14_ObservationOrder ==
    op = "evaluate_trade"
        => LET e == evaluation[1]
           IN  /\ Texts({EntryGoodText}) # {} <=> e.entry_quality = "good"
               /\ Texts({EntryPoorText}) # {} <=> e.entry_quality = "poor"
               /\ Texts({CounterTrendText}) # {} <=> ~e.aligned_with_trend
               /\ Cardinality(Texts({FavorableText, ImproveText, MissingText})) = 1
               /\ Texts({FavorableText}) # {}
                     <=> RatioAtLeastTwo(e.risk_reward_ratio)
               /\ Texts({ImproveText}) # {}
                     <=> /\ e.risk_reward_ratio # <<>>
                         /\ ~RatioAtLeastTwo(e.risk_reward_ratio)
               /\ Texts({MissingText}) # {} <=> e.risk_reward_ratio = <<>>
               /\ Texts({DisciplineText}) # {} <=> e.execution_discipline = "low"
               /\ \A i, j \in 1..Len(Observations) :
                      i < j => Rank(Observations[i].text) < Rank(Observations[j].text)
               /\ Len(Observations) \in 1..4

C14_Witness ==
    /\ op = "evaluate_trade"
    /\ evaluation[1].execution_discipline = "medium"
    /\ Len(Observations) = 3
    /\ Observations[1].text = EntryPoorText
    /\ Observations[2].text = CounterTrendText
    /\ Observations[3] = [text |-> ImproveText, ratio |-> <<80>>]

----------------------------------------------------------------------------
(* Properties of evaluate_trades and the aggregate metrics, checked under  *)
(* SpecBatch                                                                *)

Indices == 1..Len(trades)

\* C15: evaluate_trades returns one evaluation per input trade, in input
\* order: the result is as long as the trade list and, for every index i,
\* result[i].trade_id = trades[i].trade_id and result[i] is
\* evaluate_trade(trades[i], context); an empty list yields an empty result.
C15_OneEvaluationPerTradeInOrder ==
    op = "evaluate_trades"
        => /\ Len(evaluations) = Len(trades)
           /\ \A i \in Indices :
                 /\ evaluations[i].trade_id = trades[i].trade_id
                 /\ evaluations[i] = evaluate_trade(trades[i], context)
           /\ trades = <<>> => evaluations = <<>>

C15_Witness ==
    /\ op = "evaluate_trades"
    /\ Len(trades) = 3
    /\ trades[1].trade_id = "T-5"
    /\ trades[2].trade_id = "T-1"
    /\ trades[3].trade_id = "T-2"
    /\ Len(evaluations) = 3
    /\ evaluations[1].trade_id = "T-5"
    /\ evaluations[1].exit_quality = <<>>
    /\ evaluations[3].trade_id = "T-2"

WithExit == {i \in Indices : trades[i].exit_price # <<>>}

WithoutExit == {i \in Indices : trades[i].exit_price = <<>>}

\* C17: in the aggregate metrics closed_trades is the number of trades whose
\* exit price is present and open_trades the number whose exit price is
\* absent, so closed_trades + open_trades = total_trades and a trade counts
\* as closed exactly when its evaluation carries an exit quality.
C17_ClosedMeansExitPrice ==
    op = "_calculate_performance_metrics"
        => /\ metrics[1].closed_trades = Cardinality(WithExit)
           /\ metrics[1].open_trades = Cardinality(WithoutExit)
           /\ metrics[1].closed_trades + metrics[1].open_trades
                 = metrics[1].total_trades
           /\ metrics[1].closed_trades
                 = Cardinality({i \in Indices : evaluations[i].exit_quality # <<>>})

\* P&L of the closed trades, in list order; a closed trade without a P&L
\* adds nothing
ClosedPnl ==
    LET closed == SelectSeq(trades, LAMBDA t : t.exit_price # <<>>)
    IN  [i \in 1..Len(closed) |-> IF closed[i].pnl = <<>> THEN 0 ELSE closed[i].pnl[1]]

\* C18: over the closed trades only, total_pnl is the sum of their P&L,
\* avg_pnl = total_pnl / closed count, win_rate = 100 * (number with
\* P&L > 0) / closed count and losing_trades counts P&L < 0; with no closed
\* trade win_rate and avg_pnl are 0 and nothing is raised; closed P&L
\* [+50, -20, +30] gives total_pnl 60, win_rate 200/3 and avg_pnl 20;
\* win_rate is within [0, 100].
C18_PnlOverClosedTrades ==
    op = "_calculate_performance_metrics"
        => LET n == Len(ClosedPnl)
               wins == Cardinality({i \in 1..n : ClosedPnl[i] > 0})
               m == metrics[1]
           IN  /\ ~raised
               /\ m.total_pnl = SumInt(ClosedPnl)
               /\ m.losing_trades = Cardinality({i \in 1..n : ClosedPnl[i] < 0})
               /\ m.winning_trades = wins
               /\ n > 0 => /\ m.avg_pnl = Rat(SumInt(ClosedPnl), n)
                           /\ m.win_rate = Rat(100 * wins, n)
               /\ n = 0 => m.avg_pnl = Zero /\ m.win_rate = Zero
               /\ ClosedPnl = <<50, 0 - 20, 30>>
                     => /\ m.total_pnl = 60
                        /\ m.win_rate = <<200, 3>>
                        /\ m.avg_pnl = <<20, 1>>
               /\ RLe(Zero, m.win_rate) /\ RLe(m.win_rate, FromInt(100))

AlignedTrades ==
    {i \in Indices :
        \/ context.trend = "neutral"
        \/ context.trend = "bullish" /\ trades[i].side = "buy"
        \/ context.trend = "bearish" /\ trades[i].side = "sell"}

\* C19: with the evaluations from evaluate_trades, trades_with_trend is the
\* number of trades, open or closed, whose evaluation is trend-aligned,
\* trades_against_trend the number that are not, and the two are
\* non-negative and add up to total_trades.
C19_AlignmentTallies ==
    op = "_calculate_performance_metrics"
        => LET m == metrics[1]
           IN  /\ AlignedTrades = {i \in Indices : evaluations[i].aligned_with_trend}
               /\ m.trades_with_trend = Cardinality(AlignedTrades)
               /\ m.trades_against_trend = Cardinality(Indices \ AlignedTrades)
               /\ m.trades_with_trend + m.trades_against_trend = m.total_trades
               /\ m.total_trades = Len(trades)
               /\ m.trades_with_trend >= 0
               /\ m.trades_against_trend >= 0

C19_Witness ==
    /\ op = "_calculate_performance_metrics"
    /\ context.trend = "bearish"
    /\ Len(trades) = 3
    /\ trades[1].trade_id = "T-5"
    /\ trades[2].trade_id = "T-1"
    /\ trades[3].trade_id = "T-7"
    /\ metrics[1].closed_trades = 2
    /\ metrics[1].trades_with_trend = 2
    /\ metrics[1].trades_against_trend = 1

----------------------------------------------------------------------------
(* Properties of calculate_additional_metrics, checked under SpecUtils *)

RealizedPnl ==
    LET realized == SelectSeq(trades, LAMBDA t : t.pnl # <<>>)
    IN  [i \in 1..Len(realized) |-> realized[i].pnl[1]]

Cumulative(k) == SumInt(SubSeq(RealizedPnl, 1, k))

RunningPeak(k) == MaxOfSet({0} \cup {Cumulative(j) : j \in 1..k})

\* C20: max_drawdown is the largest value, over the trades with realized P&L
\* in list order, of the running peak of cumulative P&L so far (the peak
\* starting at 0) minus the current cumulative P&L; it is never negative,
\* and for trades +50, -20, +50, -60 it is 60.
C20_MaxDrawdown ==
    op = "calculate_additional_metrics"
        => /\ additional[1].max_drawdown
                 = FromInt(MaxOfSet({RunningPeak(k) - Cumulative(k) :
                                        k \in 0..Len(RealizedPnl)}))
           /\ RLe(Zero, additional[1].max_drawdown)
           /\ RealizedPnl = <<50, 0 - 20, 50, 0 - 60>>
                 => additional[1].max_drawdown = <<60, 1>>

C20_Witness ==
    /\ op = "calculate_additional_metrics"
    /\ RealizedPnl = <<50, 0 - 20, 50, 0 - 60>>
    /\ additional[1].max_drawdown = <<60, 1>>

\* sums of the winning P&L and of the absolute losing P&L
WinSum ==
    SumInt(SelectSeq(RealizedPnl, LAMBDA v : v > 0))

LossSum ==
    0 - SumInt(SelectSeq(RealizedPnl, LAMBDA v : v < 0))

\* C21: calculate_additional_metrics returns without raising, and
\* profit_factor is (sum of winning P&L) / (sum of absolute losing P&L) when
\* some trade lost and +infinity when no trade lost, also when no trade has a
\* realized P&L at all.
C21_ProfitFactor ==
    op = "calculate_additional_metrics"
        => /\ ~raised
           /\ additional # <<>>
           /\ IF \E i \in 1..Len(RealizedPnl) : RealizedPnl[i] < 0
              THEN additional[1].profit_factor = Rat(WinSum, LossSum)
              ELSE additional[1].profit_factor = Infinity

----------------------------------------------------------------------------
(* An empty candle window, checked under SpecMarket *)

\* C22: an empty candle window is reported as a distinguished invalid-input
\* or insufficient-data outcome by every entry point that analyses candles:
\* none returns a degenerate MarketContext (neutral trend, zero strength,
\* zero volatility, empty levels) for it.
C22_EmptyWindowIsReported ==
    /\ op = "analyze_market_context" /\ candles = <<>>
          => raised /\ returned_context = <<>>
    /\ op = "analyze_period" /\ candles = <<>>
          => raised /\ review = <<>>

----------------------------------------------------------------------------
(* Properties of the ManualTradeManager, checked under SpecManager *)

Stored == [i \in 1..Len(_trades) |-> heap[_trades[i]]]

\* C24: in every state reachable by add_trade, update_trade, delete_trade,
\* clear_trades(symbol) and clear_trades(), no two stored trades have the
\* same trade_id.
C24_StoredIdsDistinct ==
    \A i, j \in 1..Len(Stored) :
        i # j => Stored[i].trade_id # Stored[j].trade_id

\* after clear_trades() the ids restart at 0001, and the store holds one
C24_Witness ==
    /\ op = "add_trade"
    /\ Len(heap) = 3
    /\ _trades = <<3>>
    /\ heap[1].trade_id = <<"MANUAL-", 0, 0, 0, 1>>
    /\ heap[3].trade_id = <<"MANUAL-", 0, 0, 0, 1>>

AmendableFields ==
    {"exit_price", "exit_timestamp", "stop_loss", "take_profit", "notes"}

FixedFields ==
    {"trade_id", "timestamp", "symbol", "side", "entry_price", "quantity"}

\* C25: update_trade on an existing trade_id replaces that trade by a new
\* value in which trade_id, timestamp, symbol, side, entry_price and quantity
\* are unchanged, each of exit_price, exit_timestamp, stop_loss, take_profit
\* and notes changes only if an argument was passed for it, and P&L changes
\* only if an exit_price was passed; the trade keeps its position, the other
\* stored trades and the counter are unchanged, and no Trade value handed
\* out earlier is altered.  On an unknown trade_id it returns nothing and
\* leaves the manager unchanged.
C25_UpdateReplacesOneTrade ==
    [][op' = "update_trade"
        => LET hits == {i \in 1..Len(_trades) :
                           heap[_trades[i]].trade_id = request'.trade_id}
               a == request'.args
           IN  /\ \A r \in 1..Len(heap) : heap'[r] = heap[r]
               /\ _trade_counter' = _trade_counter
               /\ Len(_trades') = Len(_trades)
               /\ hits = {} => /\ returned' = <<>>
                               /\ _trades' = _trades
                               /\ heap' = heap
               /\ \A i \in hits :
                     LET old == heap[_trades[i]]
                         new == heap'[_trades'[i]]
                     IN  /\ returned' = <<_trades'[i]>>
                         /\ \A f \in FixedFields : new[f] = old[f]
                         /\ \A f \in AmendableFields :
                               new[f] # old[f] => a[f] # <<>>
                         /\ new.pnl # old.pnl => a.exit_price # <<>>
                         /\ \A j \in 1..Len(_trades) :
                               j # i => _trades'[j] = _trades[j]]_vars

\* the second of two stored trades replaced by a third object
C25_Witness ==
    /\ op = "update_trade"
    /\ returned = <<3>>
    /\ _trades = <<1, 3>>
    /\ heap[2].stop_loss = <<>>
    /\ heap[3].stop_loss = <<95>>
    /\ heap[3].pnl = heap[2].pnl
    /\ heap[3].trade_id = heap[2].trade_id

\* C27: in every state reachable by add_trade, update_trade, delete_trade
\* and clear_trades, each stored trade has a P&L iff it has an exit price,
\* and then P&L = (exit - entry) * quantity for a buy and
\* (entry - exit) * quantity for a sell, from the current exit price.
C27_PnlFollowsExitPrice ==
    \A i \in 1..Len(Stored) :
        LET t == Stored[i]
        IN  /\ t.pnl # <<>> <=> t.exit_price # <<>>
            /\ t.exit_price # <<>>
                  => t.pnl[1] = IF t.side = "buy"
                                THEN (t.exit_price[1] - t.entry_price) * t.quantity
                                ELSE (t.entry_price - t.exit_price[1]) * t.quantity

\* a sell closed at 110 and then re-closed at 90: P&L goes from -20 to 20
C27_Witness ==
    /\ op = "update_trade"
    /\ Len(_trades) = 1
    /\ Stored[1].side = "sell"
    /\ Stored[1].exit_price = <<90>>
    /\ Stored[1].pnl = <<20>>
    /\ heap[1].pnl = <<0 - 20>>

----------------------------------------------------------------------------
(* Properties of the readers of the stored trades, checked under SpecStored *)

Readers ==
    {"get_trades", "evaluate_trade", "evaluate_trades",
     "_calculate_performance_metrics", "calculate_additional_metrics"}

\* C23: evaluating trades and aggregating metrics changes none of their
\* inputs: after get_trades, evaluate_trade, evaluate_trades,
\* _calculate_performance_metrics or calculate_additional_metrics the market
\* context, every Trade, the list handed in and the trades stored in the
\* ManualTradeManager are exactly as before.
C23_ReadersChangeNoInput ==
    [][op' \in Readers
        => /\ context' = context
           /\ heap' = heap
           /\ _trades' = _trades
           /\ _trade_counter' = _trade_counter
           /\ op' # "get_trades" => trades' = trades]_vars

\* two trades stored out of time order, read in time order, and evaluated
C23_Witness ==
    /\ op = "_calculate_performance_metrics"
    /\ metrics # <<>>
    /\ Len(_trades) = 2
    /\ Len(trades) = 2
    /\ heap[_trades[1]].timestamp > heap[_trades[2]].timestamp
    /\ trades = <<heap[_trades[2]], heap[_trades[1]]>>

----------------------------------------------------------------------------
(* Consistency of the sub-scores of one evaluation, checked under SpecEval *)

\* C28: in every TradeEvaluation of evaluate_trade a present risk-reward
\* ratio implies discipline medium or high, discipline high implies the trade
\* has both a stop-loss and a take-profit, and entry quality good implies the
\* trade is trend-aligned; so the low-discipline remark never appears with a
\* numeric risk-reward remark, nor the counter-trend remark with the
\* good-entry remark.
C28_SubScoresConsistent ==
    op = "evaluate_trade"
        => LET e == evaluation[1]
           IN  /\ e.risk_reward_ratio # <<>>
                     => e.execution_discipline \in {"medium", "high"}
               /\ e.execution_discipline = "high"
                     => trade.stop_loss # <<>> /\ trade.take_profit # <<>>
               /\ e.entry_quality = "good" => e.aligned_with_trend
               /\ ~(/\ Texts({DisciplineText}) # {}
                    /\ Texts({FavorableText, ImproveText}) # {})
               /\ ~(/\ Texts({CounterTrendText}) # {}
                    /\ Texts({EntryGoodText}) # {})

\* a good, aligned entry with a ratio of 2 and high discipline
C28_Witness ==
    /\ op = "evaluate_trade"
    /\ evaluation[1].entry_quality = "good"
    /\ evaluation[1].aligned_with_trend
    /\ evaluation[1].risk_reward_ratio = <<<<2, 1>>>>
    /\ evaluation[1].execution_discipline = "high"
    /\ trade.stop_loss # <<>>
    /\ trade.take_profit # <<>>

----------------------------------------------------------------------------
(* The analysis cache of the web application, checked under SpecWeb *)

\* what the trade manager now returns for the symbol and period of a review
TradesNow(r) ==
    objects(heap, get_trades(CurrentManager, Some(r.symbol),
                             Some(r.period_start), Some(r.period_end)).result)

\* C26: after any sequence of live-analysis requests and manual-trade add,
\* update, delete and clear requests, every entry left in the analysis cache
\* holds a review whose trade list equals what the trade manager currently
\* returns for its symbol and period, whatever spelling of the symbol the
\* analysis request used.
C26_CachedReviewsAreCurrent ==
    \A k \in DOMAIN _analysis_cache :
        _analysis_cache[k].review.trades = TradesNow(_analysis_cache[k].review)

----------------------------------------------------------------------------
(* Requests handled at the same time, checked under SpecThreads *)

Finished(t) == pc[t] \in {"done", "raised"}

\* C29: when two add-trade requests are handled concurrently, with their
\* steps interleaved between the counter increment, the id formatting and
\* the list append, both trades end up stored and they have distinct
\* trade_ids.
C29_ConcurrentAddsGetDistinctIds ==
    (\A t \in AddThreads : pc[t] = "done")
        => /\ Len(_trades) = 2
           /\ heap[_trades[1]].trade_id # heap[_trades[2]].trade_id

\* C30: when a live analysis interleaves with an add-trade request for the
\* same upper-case symbol, then once all requests have completed the cache
\* holds no review for that symbol and period that omits an added trade.
C30_NoStaleReviewAfterRace ==
    (\A t \in Threads : Finished(t))
        => \A k \in DOMAIN _analysis_cache :
              LET r == _analysis_cache[k].review
              IN  \A i \in 1..Len(TradesNow(r)) :
                     \E j \in 1..Len(r.trades) : r.trades[j] = TradesNow(r)[i]

====
